---- MODULE Spec2Model ----
(***************************************************************************)
(* LlamalyticsHub: the analysis orchestrators and the GitHub REST client.  *)
(*                                                                         *)
(*   analyze_files_parallel      src/utils/helpers.py    (threads, cache)  *)
(*   analyze_code_files          src/github_audit.py     (one file, sync)  *)
(*   async_analyze_code_files    src/github_audit.py     (batches, stream, *)
(*                                                        retry pass)      *)
(*   AsyncGitHubClient.get       src/github_client/github_client.py and    *)
(*                               src/github_audit.py                       *)
(*                                                                         *)
(* Spec    : one orchestrator (chosen in Init) run over a bounded file     *)
(*           list; after analyze_files_parallel either orchestrator may be *)
(*           run again over the same files against the cache the earlier   *)
(*           run left on disk.                                             *)
(* SpecGet : one call of AsyncGitHubClient.get against every sequence of   *)
(*           responses of the remote service.                              *)
(* SpecFetch: one call of async_fetch_repo_data                            *)
(*           (src/github_client/github_client.py), in branch mode and in   *)
(*           pull-request mode, against every outcome of its remote calls. *)
(* SpecBatch: the orchestrators over more files than one batch (or one     *)
(*           pool of threads) holds.                                       *)
(* SpecSnap : analyze_files_parallel run again over a later snapshot of the*)
(*           files against the cache of the earlier run.                   *)
(* SpecSync : analyze_code_files over a file list, the model call raising  *)
(*           with any exception text.                                      *)
(* SpecGen  : batch_async_generate of either client over one batch.        *)
(* SpecReport: generate_github_report (src/cli.py) from the fetch to the   *)
(*           final report file.                                            *)
(* SpecLimit: RateLimiter (src/fastapi_app.py) and AdvancedRateLimiter     *)
(*           (src/security_middleware.py) over calls of is_allowed in time.*)
(* SpecRace : two runs that write the cache entry of one key, and lookups. *)
(* SpecPath : get_cache_path for the scopes of a run that caches and a run *)
(*           that looks up.                                                *)
(***************************************************************************)
EXTENDS Integers, Sequences, FiniteSets, TLC

\* ---------------------------------------------------------------- bounds
MaxFiles == 2
MaxRuns == 2
MaxTree == 2
MaxExtra == 1
\* The rate limiters run with a scaled configuration: the limit of requests
\* per window (60 in the code), the burst size (10), the window (60 s) and the
\* block (5 minutes), the last two in ticks of the clock.
LimitPerWindow == 2
BurstSize == 1
WindowTicks == 2
BlockTicks == 3

\* The longest JSON text of a cache entry, in cells of one flush each, and
\* the lookups made while the entry is written.
MaxCells == 2
MaxGets == 2

\* The longest repository name (behind the owner) and the longest branch
\* name of the cache scopes, in characters.
MaxRepoName == 2
MaxBranchName == 3

\* ------------------------------------------------------ program constants
MAX_CHARS == 100000
MAX_LINES == 4000
BATCH_SIZE == 8
MAX_WORKERS == 8
TEST_WORKERS == 2
DEFAULT_RETRIES == 3

\* ------------------------------------------------------------ file content
\* A file content is modelled by what the code reads of it: its length, its
\* number of newlines, whether strip() leaves nothing, and its text identity
\* (id), which is all the SHA-256 digest depends on.
EmptyContent == [id |-> "", chars |-> 0, lines |-> 0, blank |-> TRUE]
BlankContent == [id |-> "ws", chars |-> 3, lines |-> 1, blank |-> TRUE]
ContentF == [id |-> "def f(): pass", chars |-> 13, lines |-> 0, blank |-> FALSE]
ContentG == [id |-> "def g(): pass", chars |-> 13, lines |-> 0, blank |-> FALSE]
LongContent == [id |-> "long", chars |-> MAX_CHARS + 1, lines |-> 0, blank |-> FALSE]
ManyLinesContent == [id |-> "lines", chars |-> 45000, lines |-> MAX_LINES + 1, blank |-> FALSE]

Contents == {EmptyContent, BlankContent, ContentF, ContentG, LongContent, ManyLinesContent}

ContentIds == {c.id : c \in Contents}

\* `not content` (helpers.py:204, github_audit.py:374/435): None or "".
Falsy(c) == c.chars = 0

\* Faulty variant of SkipEmpty: the strip() test is left out.
SkipEmptyOnlyFalsy(c) == Falsy(c)

\* `not content or len(content.strip()) == 0`
SkipEmpty(c) == Falsy(c) \/ c.blank

\* `len(content) > 100_000 or content.count('\n') > 4000`
TooLarge(c) == c.chars > MAX_CHARS \/ c.lines > MAX_LINES

\* hashlib.sha256(content.encode('utf-8')).hexdigest(): a function of the text
\* alone; distinct texts of the model have distinct digests.
hash_content(c) == c.id

\* ------------------------------------------------------------ model replies
\* What one inference call hands back: a text with content, the empty string,
\* a text carrying the marker "[LLM error: ...]", or (synchronous generate of
\* ollama_code_llama.py only) a raised exception.
Replies == {"ok", "empty", "err"}
SyncOutcomes == Replies \cup {"raise"}

\* The exceptions of generate by their text str(e): "raise" for a text without
\* a section header, "raise_header" for a text that holds one, such as
\* "Summary: model overloaded\n- retry later".
SyncOutcomesByText == SyncOutcomes \cup {"raise_header"}

\* analyze_code_files: `except Exception as e: llm_response = f"[LLM error: {e}]"`
SyncResponse(outcome) ==
  IF outcome = "raise" THEN "err"
  ELSE IF outcome = "raise_header" THEN "err_header"
  ELSE outcome

\* What one HTTP call of a batch ends in: as Replies, or an exception.
AsyncOutcomes == Replies \cup {"raise"}

\* Faulty variant of BatchResponse: the exception of a call leaves the gather.
BatchResponseRaises(outcome) == outcome

\* batch_async_generate of ollama_code_llama.py: asyncio.gather(*tasks,
\* return_exceptions=True), and `results.append("")` for an exception.
BatchResponse(outcome) == IF outcome = "raise" THEN "empty" ELSE outcome

\* Faulty variant of IsFailedResponse: the marker test is left out.
IsFailedResponseOnlyEmpty(r) == r = "empty"

\* `not llm_response or 'LLM error' in llm_response`
IsFailedResponse(r) == r = "empty" \/ r = "err"

\* ------------------------------------------------------------------ results
\* An analysis result {'filename': ..., **sections}; kind abstracts the
\* summary: "summary" the text under a section header of the reply (the
\* header may stand inside the text of an exception), "LLM error" the fallback
\* summary "[LLM error: ...]", "empty" the empty summary, "too large" the
\* skip explanation.
NoneResult == [filename |-> 0, kind |-> "None"]
NoEntry == [filename |-> 0, kind |-> "absent"]

\* A cache file that exists and that json.load cannot read: empty or cut
\* short by a write that did not finish.
CorruptEntry == [filename |-> 0, kind |-> "corrupt"]

\* parse_llm_response: the summary is the matched section or, failing that,
\* the first 300 characters of the response.
parse_llm_response(r) ==
  IF r \in {"ok", "err_header"} THEN "summary"
  ELSE IF r = "err" THEN "LLM error"
  ELSE "empty"

MkResult(i, r) == [filename |-> i, kind |-> parse_llm_response(r)]

Placeholder(i) == [filename |-> i, kind |-> "too large"]

Min(a, b) == IF a < b THEN a ELSE b

Range(s) == {s[k] : k \in 1..Len(s)}

VARIABLES
  orch,          \* "parallel" | "async" | "none": the orchestrator under run
  files,         \* the input list; a file's name is its index
  partial_report_path, \* TRUE iff a stream sink was passed
  pc,            \* position of the orchestrator
  run,           \* number of the run (analyze_files_parallel may run again)
  stack,         \* suspended outer calls of async_analyze_code_files
  retry_callback,\* TRUE iff the running call was given a retry callback
  todo,          \* `files` of the running call (indices into files)
  file_objs,     \* files queued for the model (prompts are parallel to it)
  batch_start,   \* `i` of the batch loop
  batch_results, \* replies of the batch in flight ("pending" until returned)
  results,       \* async: the [None]*n list; parallel: the results list
  analyses,      \* async: the analyses list
  failed_files,  \* async: the failed-file list
  stream,        \* entries appended to the partial report
  calls,         \* inference calls issued in this run
  attempts,      \* inference calls issued per file in this run
  cache,         \* the cache directory: content hash -> entry
  fut,           \* parallel: state of each submitted future
  returned,      \* the value the top-level call returned
  cancelled,     \* TRUE once an interrupt has hit the run
  lastReply,     \* history: the last reply of the model per file
  clean,         \* history: no failed reply and no failed cache write so far
  max_workers,   \* parallel: the max_workers argument
  lookup,        \* history: what the cache lookup of the run found per file
  lastPut        \* history: how the cache write of the run ended per file

VARIABLES
  gState,        \* get: "idle" | "request" | "returned" | "raised"
  gTimeImported, \* TRUE: github_client.py (imports time); FALSE: github_audit.py
  gRetries,      \* the retries argument
  gAttempt,      \* `attempt` of the for loop
  gCalls,        \* HTTP calls issued
  gErrs,         \* transport errors and non-2xx responses seen
  gRate,         \* rate-limited responses seen
  gSleeps,       \* the sleeps performed, in order
  gEndpoint,     \* the endpoint argument
  gParams,       \* the params argument
  gRequests,     \* the HTTP calls issued, in order: what was asked for
  gWaits,        \* per rate-limited response: the call it answered, the
                 \* seconds to the reset, the seconds slept after it
  gAnswers       \* how each HTTP call issued was answered, in order

VARIABLES
  fPc,           \* fetch: position of async_fetch_repo_data
  fMode,         \* "pr" (pr_number given) | "branch"
  fBranchGiven,  \* TRUE iff the branch argument is not None
  fRoot,         \* what the remote lists: the changed files / the root directory
  fStack,        \* branch mode: the stack of the tree walk
  fTaskFiles,    \* the files whose content fetch was created, in task order
  fTasks,        \* per task: "pending" or what the fetch came back with
  fFiles,        \* the files list of the snapshot
  fReadme,       \* the readme of the snapshot
  fRemoteReadme, \* the remote: the README of the repository at each ref
  fFileRef       \* the ref the content fetches were created with

VARIABLES
  rPc,           \* report: position of generate_github_report
  rScope,        \* the audit scope chosen
  rHasPr,        \* TRUE iff a pull request was selected (pr_number_int)
  rPartial,      \* TRUE iff the file report_path + ".partial" is on disk
  rFinal         \* TRUE iff the file report_path is on disk

ovars == <<orch, files, partial_report_path, pc, run, stack, retry_callback, todo,
           file_objs, batch_start, batch_results, results, analyses, failed_files,
           stream, calls, attempts, cache, fut, returned, cancelled, lastReply, clean,
           max_workers, lookup, lastPut>>

gvars == <<gState, gTimeImported, gRetries, gAttempt, gCalls, gErrs, gRate, gSleeps,
           gEndpoint, gParams, gRequests, gWaits, gAnswers>>

fvars == <<fPc, fMode, fBranchGiven, fRoot, fStack, fTaskFiles, fTasks, fFiles, fReadme,
           fRemoteReadme, fFileRef>>

VARIABLES
  sError         \* sync: per file, the text of the exception generate raised

svars == <<sError>>

VARIABLES
  bPc,           \* batch: position of one call of batch_async_generate
  bClient,       \* the class of `llama`: "ollama_code_llama" | "llm.ollama_client"
  bFiles,        \* batch_files: the file names of the batch
  bPrompts,      \* batch_prompts
  bTasks,        \* per task, in task order: PendingTask or what the call ended in
  bOrder,        \* the tasks in the order they completed
  bResults,      \* the list batch_async_generate returned
  bBuilt         \* the AnalysisResults built from the batch (history: with
                 \* the prompt each response answers)

VARIABLES
  lKind,         \* "RateLimiter" | "AdvancedRateLimiter"
  lTestMode,     \* RateLimiter.test_mode
  lNow,          \* datetime.now(), in ticks
  lRequests,     \* self.requests: per IP the times of the requests let through
  lBlocked,      \* self.blocked_ips
  lBlockedUntil, \* self.blocked_until (-1: no entry)
  lCalls,        \* is_allowed calls made so far
  lIssued,       \* history: per IP the times of its calls inside the window
                 \* that ended at its last call
  lLast          \* history: the last call and its verdict

lvars == <<lKind, lTestMode, lNow, lRequests, lBlocked, lBlockedUntil, lCalls, lIssued,
           lLast>>

VARIABLES
  cFile,         \* the bytes of one cache entry file, as cells of the values
  cExists,       \* os.path.exists(cache_path)
  cValue,        \* per run: the JSON text it dumps, as a sequence of cells
  cPc,           \* per run: "todo" | "open" | "closed" (the with-block)
  cOffset,       \* per run: the file position of its file object
  cGets          \* history: what the lookups of the entry returned

cvars == <<cFile, cExists, cValue, cPc, cOffset, cGets>>

VARIABLES
  kPc,           \* "start" | "stored" | "looked up"
  kWriter,       \* (repo_name, branch_name, pr_number) of the run that caches
  kReader,       \* (repo_name, branch_name, pr_number) of the run that looks up
  kStored,       \* the cache files on disk
  kServed        \* the lookup found a cache file

kvars == <<kPc, kWriter, kReader, kStored, kServed>>

\* The state of the cache entry race and of the cache directories.
yvars == <<cvars, kvars>>

bvars == <<bPc, bClient, bFiles, bPrompts, bTasks, bOrder, bResults, bBuilt>>

rvars == <<rPc, rScope, rHasPr, rPartial, rFinal>>

\* The state of the components other than the orchestrators, get and the
\* snapshot fetch.
xvars == <<rvars, svars, bvars, lvars, yvars>>

vars == <<ovars, max_workers, lookup, lastPut,
                 gvars, fvars, xvars>>

\* ===================================================== async_analyze_code_files
\* Lines 432-467: the files of the call that get a prompt.
Queued(fs) == SelectSeq(fs, LAMBDA i : ~SkipEmpty(files[i]) /\ ~TooLarge(files[i]))

\* Lines 437-439: the placeholders appended to analyses.
Oversized(fs) == SelectSeq(fs, LAMBDA i : ~SkipEmpty(files[i]) /\ TooLarge(files[i]))

\* Faulty variant of BatchPositions: the slice has no upper end.
BatchPositionsToEnd(n, start) == (start + 1)..n

\* prompts[i:i+batch_size]: the positions of file_objs in the batch at start.
BatchPositions(n, start) == (start + 1)..Min(start + BATCH_SIZE, n)

\* A variant that does not wait: the batch counts as answered when dispatched.
PendingBatchNotAwaited(n, start) ==
  [k \in 1..n |-> IF k \in BatchPositions(n, start) THEN "ok" ELSE "idle"]

PendingBatch(n, start) ==
  [k \in 1..n |-> IF k \in BatchPositions(n, start) THEN "pending" ELSE "idle"]

\* `return [r for r in results if r]`
ReturnValue(res) == SelectSeq(res, LAMBDA r : r # NoneResult)

\* Faulty variant of RecursiveCallback: the recursive call inherits the callback.
RecursiveCallbackKept(cb) == cb

\* retry_callback=None of the recursive call (line 503)
RecursiveCallback(cb) == FALSE

\* Faulty variant of StreamAppend: the report is opened with mode 'w'.
StreamRewrite(st, entries) == entries

\* `with open(partial_report_path, 'a', encoding='utf-8') as f: f.write(...)`
\* for each accepted result of the batch, in batch order.
StreamAppend(st, entries) == st \o entries

\* Lines 425-475: set up the call and dispatch the first batch.
EnterCall(fs) ==
  LET q == Queued(fs) IN
  /\ todo' = fs
  /\ file_objs' = q
  /\ analyses' = [k \in 1..Len(Oversized(fs)) |-> Placeholder(Oversized(fs)[k])]
  /\ failed_files' = <<>>
  /\ results' = [k \in 1..Len(q) |-> NoneResult]
  /\ batch_start' = 0
  /\ batch_results' = PendingBatch(Len(q), 0)
  /\ calls' = calls + Cardinality(BatchPositions(Len(q), 0))
  /\ attempts' = [i \in DOMAIN attempts |->
        IF \E k \in BatchPositions(Len(q), 0) : q[k] = i THEN attempts[i] + 1 ELSE attempts[i]]
  /\ pc' = IF Len(q) = 0 THEN "retry_check" ELSE "await"

AsyncStart ==
  /\ orch = "async" /\ pc = "start"
  /\ EnterCall([k \in 1..Len(files) |-> k])
  /\ UNCHANGED <<orch, files, partial_report_path, run, stack, retry_callback,
                 stream, cache, fut, returned, cancelled, lastReply, clean, max_workers, lookup, lastPut,
                 gvars, fvars, xvars>>

\* One call of the batch in flight ends (asyncio.gather collects it). An
\* exception that reached the caller of batch_async_generate would leave
\* async_analyze_code_files, which has no handler around the await.
CallReturns(k, outcome) ==
  /\ orch = "async" /\ pc = "await"
  /\ batch_results[k] = "pending"
  /\ LET r == BatchResponse(outcome) IN
     /\ batch_results' = [batch_results EXCEPT ![k] = r]
     /\ lastReply' = [lastReply EXCEPT ![file_objs[k]] = r]
     /\ clean' = (clean /\ r = "ok")
     /\ pc' = IF r = "raise" THEN "raised" ELSE pc
  /\ UNCHANGED <<orch, files, partial_report_path, run, stack, retry_callback, todo,
                 file_objs, batch_start, results, analyses, failed_files, stream,
                 calls, attempts, cache, fut, returned, cancelled, max_workers, lookup, lastPut,
                 gvars, fvars, xvars>>

\* Lines 476-497 for the gathered batch, then the next batch is dispatched.
GatherBatch ==
  /\ orch = "async" /\ pc = "await"
  /\ \A k \in 1..Len(file_objs) : batch_results[k] # "pending"
  /\ LET n == Len(file_objs)
         pos == BatchPositions(n, batch_start)
         inBatch == SelectSeq([k \in 1..n |-> k], LAMBDA k : k \in pos)
         good == SelectSeq(inBatch, LAMBDA k : ~IsFailedResponse(batch_results[k]))
         bad == SelectSeq(inBatch, LAMBDA k : IsFailedResponse(batch_results[k]))
         res(k) == MkResult(file_objs[k], batch_results[k])
         done == [k \in 1..Len(good) |-> res(good[k])]
         next == batch_start + BATCH_SIZE
     IN
     /\ failed_files' = failed_files \o [k \in 1..Len(bad) |-> file_objs[bad[k]]]
     /\ results' = [k \in 1..n |->
            IF k \in pos
            THEN (IF IsFailedResponse(batch_results[k]) THEN NoneResult ELSE res(k))
            ELSE results[k]]
     /\ analyses' = analyses \o done
     /\ stream' = IF partial_report_path THEN StreamAppend(stream, done) ELSE stream
     /\ batch_start' = next
     /\ batch_results' = PendingBatch(n, next)
     /\ calls' = calls + Cardinality(BatchPositions(n, next))
     /\ attempts' = [i \in DOMAIN attempts |->
           IF \E k \in BatchPositions(n, next) : file_objs[k] = i
           THEN attempts[i] + 1 ELSE attempts[i]]
     /\ pc' = IF next < n THEN "await" ELSE "retry_check"
  /\ UNCHANGED <<orch, files, partial_report_path, run, stack, retry_callback, todo,
                 file_objs, cache, fut, returned, cancelled, lastReply, clean, max_workers, lookup, lastPut,
                 gvars, fvars, xvars>>

\* Lines 499-504: `if failed_files and retry_callback: retry = retry_callback(...)`;
\* a retry re-enters the function with the failed files, the outer call waits.
RetryDecision(answer) ==
  /\ orch = "async" /\ pc = "retry_check"
  /\ IF failed_files # <<>> /\ retry_callback /\ answer
     THEN /\ stack' = <<[todo |-> todo, file_objs |-> file_objs, results |-> results,
                         analyses |-> analyses, failed_files |-> failed_files,
                         retry_callback |-> retry_callback]>> \o stack
          /\ retry_callback' = RecursiveCallback(retry_callback)
          /\ EnterCall(failed_files)
     ELSE /\ pc' = "return"
          /\ UNCHANGED <<stack, retry_callback, todo, file_objs, batch_start,
                         batch_results, results, analyses, failed_files, calls, attempts>>
  /\ UNCHANGED <<orch, files, partial_report_path, run, stream, cache, fut, returned,
                 cancelled, lastReply, clean, max_workers, lookup, lastPut,
                 gvars, fvars, xvars>>

\* Line 505; the value of a recursive call is extended onto the caller's
\* analyses (line 504) and the caller goes on to its own line 505.
AsyncReturn ==
  /\ orch = "async" /\ pc = "return"
  /\ LET ret == ReturnValue(results) IN
     IF stack = <<>>
     THEN /\ returned' = ret
          /\ pc' = "returned"
          /\ UNCHANGED <<stack, retry_callback, todo, file_objs, results, analyses,
                         failed_files>>
     ELSE /\ stack' = Tail(stack)
          /\ retry_callback' = Head(stack).retry_callback
          /\ todo' = Head(stack).todo
          /\ file_objs' = Head(stack).file_objs
          /\ results' = Head(stack).results
          /\ failed_files' = Head(stack).failed_files
          /\ analyses' = Head(stack).analyses \o ret
          /\ pc' = "return"
          /\ UNCHANGED returned
  /\ UNCHANGED <<orch, files, partial_report_path, run, batch_start, batch_results,
                 stream, calls, attempts, cache, fut, cancelled, lastReply, clean, max_workers, lookup, lastPut,
                 gvars, fvars, xvars>>

\* An interrupt while a batch is awaited: nothing in async_analyze_code_files
\* or run_async (cli.py:484-516, which maps RuntimeError only) handles
\* KeyboardInterrupt / CancelledError, so it leaves the call as an exception.
AsyncCancel ==
  /\ orch = "async" /\ pc = "await"
  /\ cancelled' = TRUE
  /\ pc' = "raised"
  /\ UNCHANGED <<orch, files, partial_report_path, run, stack, retry_callback, todo,
                 file_objs, batch_start, batch_results, results, analyses, failed_files,
                 stream, calls, attempts, cache, fut, returned, lastReply, clean, max_workers, lookup, lastPut,
                 gvars, fvars, xvars>>

\* ======================================================= analyze_code_files
\* One call analyze_code_files([f], ...) as a pool worker makes it: the list
\* it returns (empty for a skipped file) for the outcome of llama.generate.
analyze_code_files(i, outcome) ==
  IF SkipEmpty(files[i]) THEN <<>>
  ELSE IF TooLarge(files[i]) THEN <<Placeholder(i)>>
  ELSE <<MkResult(i, SyncResponse(outcome))>>

\* Whether analyze_code_files reaches llama.generate for the file.
CallsModel(i) == ~SkipEmpty(files[i]) /\ ~TooLarge(files[i])

\* ===================================================== analyze_files_parallel
\* How `with open(cache_path, 'w') as cf: json.dump(file_result[0], cf)` ends:
\* the entry is written, or the write raises. A write that raises leaves a
\* file no later lookup can read: missing as before, or truncated by open and
\* never filled. The lookup treats both alike (lines 208-217), so the model
\* follows the truncated file, which is the one that differs from a first run.
WriteOutcomes == {"written", "dump_failed"}

\* Faulty variant of CachePut: every write is lost.
CachePutNever(c, key, value, w) == c

\* open(cache_path, 'w') + json.dump(file_result[0]) under try/except: pass
CachePut(c, key, value, w) ==
  IF w = "written" THEN [c EXCEPT ![key] = value]
  ELSE IF w = "dump_failed" THEN [c EXCEPT ![key] = CorruptEntry]
  ELSE c

\* Faulty variant of CacheHit: the file exists, whether or not it can be read.
CacheHitIfExists(c, key) == c[key] # NoEntry

\* os.path.exists(cache_path) and, under try/except, open + json.load succeed
CacheHit(c, key) == c[key] # NoEntry /\ c[key] # CorruptEntry

\* What lines 202-217 find for a file.
Lookup(c, content) ==
  IF Falsy(content) THEN "skipped"
  ELSE IF CacheHit(c, hash_content(content)) THEN "hit"
  ELSE IF c[hash_content(content)] = NoEntry THEN "absent"
  ELSE "unreadable"

\* Faulty variant of CollectResults: the result is kept only if it was cached.
CollectResultsIfWritten(res, file_result, w) ==
  IF w = "written" THEN res \o file_result ELSE res

\* results.extend(file_result) (line 229), before the cache write
CollectResults(res, file_result, w) == res \o file_result

\* The calls of the pool that are inside llama.generate.
Running == {i \in DOMAIN fut : fut[i].state = "running"}

\* Lines 202-217: cached results first, the rest is submitted to the pool.
Uncached(c) ==
  SelectSeq([k \in 1..Len(files) |-> k],
            LAMBDA i : ~Falsy(files[i]) /\ ~CacheHit(c, hash_content(files[i])))

Cached(c) ==
  SelectSeq([k \in 1..Len(files) |-> k],
            LAMBDA i : ~Falsy(files[i]) /\ CacheHit(c, hash_content(files[i])))

Partition ==
  /\ orch = "parallel" /\ pc = "start"
  /\ results' = [k \in 1..Len(Cached(cache)) |-> cache[hash_content(files[Cached(cache)[k]])]]
  /\ todo' = Uncached(cache)
  /\ fut' = [i \in DOMAIN fut |->
        IF i \in Range(Uncached(cache)) THEN [state |-> "queued", result |-> <<>>]
        ELSE fut[i]]
  /\ lookup' = [i \in DOMAIN lookup |-> Lookup(cache, files[i])]
  /\ pc' = "collect"
  /\ UNCHANGED <<orch, files, partial_report_path, run, stack, retry_callback,
                 file_objs, batch_start, batch_results, analyses, failed_files, stream,
                 calls, attempts, cache, returned, cancelled, lastReply, clean,
                 max_workers, lastPut, gvars, fvars, xvars>>

\* A thread of ThreadPoolExecutor(max_workers=max_workers) takes a queued
\* future and enters analyze_code_files([f], ...); for a file that is neither
\* skipped nor too large it issues the call llama.generate(prompt). After an
\* interrupt the pool still drains: ThreadPoolExecutor.__exit__ waits.
WorkerStart(i) ==
  /\ orch = "parallel" /\ pc \in {"collect", "raised"}
  /\ fut[i].state = "queued"
  /\ Cardinality(Running) < max_workers
  /\ fut' = [fut EXCEPT ![i].state = "running"]
  /\ IF CallsModel(i)
     THEN /\ calls' = calls + 1
          /\ attempts' = [attempts EXCEPT ![i] = @ + 1]
     ELSE UNCHANGED <<calls, attempts>>
  /\ UNCHANGED <<orch, files, partial_report_path, pc, run, stack, retry_callback, todo,
                 file_objs, batch_start, batch_results, results, analyses, failed_files,
                 stream, cache, returned, cancelled, lastReply, clean,
                 max_workers, lookup, lastPut, gvars, fvars, xvars>>

\* The thread runs analyze_code_files([f], ...) to its end.
Worker(i, outcome) ==
  /\ orch = "parallel" /\ pc \in {"collect", "raised"}
  /\ fut[i].state = "running"
  /\ CallsModel(i) \/ outcome = "ok"
  /\ fut' = [fut EXCEPT ![i] = [state |-> "done", result |-> analyze_code_files(i, outcome)]]
  /\ IF CallsModel(i)
     THEN /\ lastReply' = [lastReply EXCEPT ![i] = SyncResponse(outcome)]
          /\ clean' = (clean /\ outcome = "ok")
     ELSE UNCHANGED <<lastReply, clean>>
  /\ UNCHANGED <<orch, files, partial_report_path, pc, run, stack, retry_callback, todo,
                 file_objs, batch_start, batch_results, results, analyses, failed_files,
                 stream, calls, attempts, cache, returned, cancelled,
                 max_workers, lookup, lastPut, gvars, fvars, xvars>>

\* Lines 226-240: the as_completed loop takes one finished future.
Collect(i, w) ==
  /\ orch = "parallel" /\ pc = "collect"
  /\ fut[i].state = "done"
  /\ fut' = [fut EXCEPT ![i].state = "collected"]
  /\ IF fut[i].result # <<>>
     THEN /\ results' = CollectResults(results, fut[i].result, w)
          /\ cache' = CachePut(cache, hash_content(files[i]), fut[i].result[1], w)
          /\ lastPut' = [lastPut EXCEPT ![i] = w]
          /\ clean' = (clean /\ w = "written")
     ELSE /\ w = "written"
          /\ UNCHANGED <<results, cache, lastPut, clean>>
  /\ UNCHANGED <<orch, files, partial_report_path, pc, run, stack, retry_callback, todo,
                 file_objs, batch_start, batch_results, analyses, failed_files, stream,
                 calls, attempts, returned, cancelled, lastReply, max_workers, lookup,
                 gvars, fvars, xvars>>

\* Line 241.
ParallelReturn ==
  /\ orch = "parallel" /\ pc = "collect"
  /\ \A i \in Range(todo) : fut[i].state = "collected"
  /\ returned' = results
  /\ pc' = "returned"
  /\ UNCHANGED <<orch, files, partial_report_path, run, stack, retry_callback, todo,
                 file_objs, batch_start, batch_results, results, analyses, failed_files,
                 stream, calls, attempts, cache, fut, cancelled, lastReply, clean, max_workers, lookup, lastPut,
                 gvars, fvars, xvars>>

\* An interrupt of the main thread inside the as_completed loop: no handler,
\* the exception leaves analyze_files_parallel.
ParallelCancel ==
  /\ orch = "parallel" /\ pc = "collect"
  /\ \E i \in Range(todo) : fut[i].state # "collected"
  /\ cancelled' = TRUE
  /\ pc' = "raised"
  /\ UNCHANGED <<orch, files, partial_report_path, run, stack, retry_callback, todo,
                 file_objs, batch_start, batch_results, results, analyses, failed_files,
                 stream, calls, attempts, cache, fut, returned, lastReply, clean, max_workers, lookup, lastPut,
                 gvars, fvars, xvars>>

\* The same files are analysed again (a further run of the CLI) by
\* analyze_files_parallel (cli.py:972) or by async_analyze_code_files with the
\* arguments sink and cb (cli.py:686, 725); only the cache directory .cache/
\* persists between the calls, the partial report is started afresh.
\* async_analyze_code_files leaves nothing behind that a later call reads, so
\* only the runs that follow a run of analyze_files_parallel are distinct.
NextRun(o, sink, cb) ==
  /\ orch = "parallel" /\ pc = "returned" /\ run < MaxRuns
  /\ (o = "parallel") => (~sink /\ ~cb)
  /\ orch' = o
  /\ partial_report_path' = sink
  /\ retry_callback' = cb
  /\ run' = run + 1
  /\ pc' = "start"
  /\ results' = <<>>
  /\ analyses' = <<>>
  /\ failed_files' = <<>>
  /\ file_objs' = <<>>
  /\ batch_start' = 0
  /\ batch_results' = <<>>
  /\ stream' = <<>>
  /\ todo' = <<>>
  /\ returned' = <<>>
  /\ calls' = 0
  /\ attempts' = [i \in DOMAIN attempts |-> 0]
  /\ fut' = [i \in DOMAIN fut |-> [state |-> "none", result |-> <<>>]]
  /\ lastReply' = [i \in DOMAIN lastReply |-> "none"]
  /\ lookup' = [i \in DOMAIN lookup |-> "none"]
  /\ lastPut' = [i \in DOMAIN lastPut |-> "none"]
  /\ UNCHANGED <<files, stack, cache, cancelled, clean, max_workers, gvars, fvars, xvars>>

\* ====================================================== AsyncGitHubClient.get
\* What one HTTP call ends in: a 2xx response, a 403 with
\* X-RateLimit-Remaining "0", another non-2xx response (raise_for_status
\* raises), or an exception of the transport.
\* What one HTTP call can come back with: a 2xx answer, a 403 with
\* X-RateLimit-Remaining: 0, a 404 or 401 (the repository or pull request does
\* not exist, the token is rejected), another non-2xx answer, or an exception
\* of the transport.
HttpOutcomes == {"ok", "rate_limited", "not_found", "http_error", "transport_error"}

\* X-RateLimit-Reset minus int(time.time()) at the moment of the response.
ResetDeltas == {-1, 0, 1, 5}

Max(a, b) == IF a > b THEN a ELSE b

\* 2 ** attempt
Backoff(attempt) == 2 ^ attempt

\* `wait = max(reset - int(time.time()), 1)`; github_audit.py never imports
\* time, so there the expression raises NameError, which the except clause
\* of the loop catches like any other failure of the attempt.
RateLimitSleep(timeImported, delta, attempt) ==
  IF timeImported THEN Max(delta, 1) ELSE Backoff(attempt)

\* Faulty variant of AfterRateLimit: the rate-limited call is repeated
\* without using up an iteration.
AfterRateLimitSameAttempt(attempt) == attempt

\* `continue` inside `for attempt in range(retries)`: the loop variable moves on.
AfterRateLimit(attempt) == attempt + 1

\* The endpoints and parameters the fetchers pass to get.
Endpoints == {"/repos/o/r/pulls/1/files", "/repos/o/r/contents/a.py"}
ParamSets == {"None", "ref=main"}

\* url = f"{self.base_url}{endpoint}", computed once, before the loop
Url(endpoint) == <<"https://api.github.com", endpoint>>

\* generate_github_report is not running.
ReportIdle ==
  /\ rPc = "idle" /\ rScope = "README only" /\ rHasPr = FALSE
  /\ rPartial = FALSE /\ rFinal = FALSE

\* analyze_code_files is not running on its own.
SyncIdle == sError = <<>>

\* batch_async_generate is not running on its own.
BatchIdle ==
  /\ bPc = "idle" /\ bClient = "ollama_code_llama" /\ bFiles = <<>> /\ bPrompts = <<>>
  /\ bTasks = <<>> /\ bOrder = <<>> /\ bResults = <<>> /\ bBuilt = <<>>

\* The client addresses.
IPs == {"127.0.0.1", "127.0.0.2"}

NoCall == [ip |-> "none", allowed |-> TRUE, before |-> 0, blocked |-> FALSE]

\* No rate limiter is in use.
LimiterIdle ==
  /\ lKind = "none" /\ lTestMode = FALSE /\ lNow = 0
  /\ lRequests = [ip \in IPs |-> <<>>] /\ lBlocked = {}
  /\ lBlockedUntil = [ip \in IPs |-> -1] /\ lCalls = 0
  /\ lIssued = [ip \in IPs |-> <<>>] /\ lLast = NoCall

\* No run writes the cache entry.
RaceIdle ==
  /\ cFile = <<>> /\ cExists = FALSE /\ cValue = <<>> /\ cPc = <<>>
  /\ cOffset = <<>> /\ cGets = <<>>

NoScope == [repository |-> <<>>, branch |-> <<>>, pr_number |-> 0]

\* No cache directory is in use.
PathIdle ==
  /\ kPc = "idle" /\ kWriter = NoScope /\ kReader = NoScope
  /\ kStored = {} /\ kServed = FALSE

YIdle == RaceIdle /\ PathIdle

XIdleButRace == ReportIdle /\ SyncIdle /\ BatchIdle /\ LimiterIdle /\ PathIdle

XIdle == ReportIdle /\ SyncIdle /\ BatchIdle /\ LimiterIdle /\ YIdle

GetIdle ==
  /\ gState = "idle" /\ gTimeImported = TRUE /\ gRetries = DEFAULT_RETRIES
  /\ gAttempt = 0 /\ gCalls = 0 /\ gErrs = 0 /\ gRate = 0 /\ gSleeps = <<>>
  /\ gEndpoint = "/repos/o/r/contents/a.py" /\ gParams = "None"
  /\ gRequests = <<>> /\ gWaits = <<>> /\ gAnswers = <<>>

\* After the body of the loop for `attempt` ended without a return.
LoopNext(next) ==
  /\ gAttempt' = next
  /\ gState' = IF next < gRetries THEN "request" ELSE "raised"

\* `response = await self.client.get(url, params=params)` and what follows it.
GetResponse(outcome, delta) ==
  /\ gState = "request"
  /\ gCalls' = gCalls + 1
  /\ gRequests' = Append(gRequests, [url |-> Url(gEndpoint), params |-> gParams])
  /\ gAnswers' = Append(gAnswers, outcome)
  /\ IF outcome = "ok"
     THEN /\ delta = 0
          /\ gState' = "returned"
          /\ UNCHANGED <<gAttempt, gErrs, gRate, gSleeps, gWaits>>
     ELSE IF outcome = "rate_limited"
     THEN /\ gRate' = gRate + 1
          /\ gSleeps' = Append(gSleeps, RateLimitSleep(gTimeImported, delta, gAttempt))
          /\ gWaits' = Append(gWaits, [call |-> gCalls + 1, reset_in |-> delta,
                                       slept |-> RateLimitSleep(gTimeImported, delta, gAttempt)])
          /\ LoopNext(AfterRateLimit(gAttempt))
          /\ UNCHANGED gErrs
     ELSE /\ delta = 0
          /\ gErrs' = gErrs + 1
          /\ gSleeps' = Append(gSleeps, Backoff(gAttempt))
          /\ LoopNext(gAttempt + 1)
          /\ UNCHANGED <<gRate, gWaits>>
  /\ UNCHANGED <<gTimeImported, gRetries, gEndpoint, gParams, ovars, fvars, xvars>>

\* The call is made: the loop is entered.
GetCall ==
  /\ gState = "idle"
  /\ gState' = IF gRetries > 0 THEN "request" ELSE "raised"
  /\ UNCHANGED <<gTimeImported, gRetries, gAttempt, gCalls, gErrs, gRate, gSleeps,
                 gEndpoint, gParams, gRequests, gWaits, gAnswers, ovars, fvars, xvars>>

OrchIdle ==
  /\ orch = "none" /\ files = <<>> /\ partial_report_path = FALSE /\ pc = "idle"
  /\ run = 1 /\ stack = <<>> /\ retry_callback = FALSE /\ todo = <<>>
  /\ file_objs = <<>> /\ batch_start = 0 /\ batch_results = <<>> /\ results = <<>>
  /\ analyses = <<>> /\ failed_files = <<>> /\ stream = <<>> /\ calls = 0
  /\ attempts = <<>> /\ cache = [h \in ContentIds |-> NoEntry] /\ fut = <<>>
  /\ returned = <<>> /\ cancelled = FALSE /\ lastReply = <<>> /\ clean = TRUE
  /\ max_workers = MAX_WORKERS /\ lookup = <<>> /\ lastPut = <<>>

\* async_fetch_repo_data is not running.
FetchIdle ==
  /\ fPc = "idle" /\ fMode = "branch" /\ fBranchGiven = TRUE /\ fRoot = <<>>
  /\ fStack = <<>> /\ fTaskFiles = <<>> /\ fTasks = <<>> /\ fFiles = <<>> /\ fReadme = ""
  /\ fRemoteReadme = [r \in {"base", "head", "ref"} |-> "# Old"] /\ fFileRef = "none"

InitGet ==
  /\ OrchIdle
  /\ FetchIdle
  /\ gState = "idle"
  /\ gTimeImported \in BOOLEAN
  /\ gRetries \in 1..DEFAULT_RETRIES
  /\ gAttempt = 0 /\ gCalls = 0 /\ gErrs = 0 /\ gRate = 0 /\ gSleeps = <<>>
  /\ gEndpoint \in Endpoints /\ gParams \in ParamSets
  /\ gRequests = <<>> /\ gWaits = <<>> /\ gAnswers = <<>>
  /\ XIdle

NextGet ==
  \/ GetCall
  \/ \E outcome \in HttpOutcomes, delta \in ResetDeltas : GetResponse(outcome, delta)

SpecGet == InitGet /\ [][NextGet]_vars

\* ====================================================== async_fetch_repo_data
\* (src/github_client/github_client.py) What the remote lists: files with an
\* extension of the allow-list, other files, and (branch mode) directories.
FileA == [path |-> "a.py", type |-> "file", code |-> TRUE]
FileB == [path |-> "b.js", type |-> "file", code |-> TRUE]
FileT == [path |-> "notes.txt", type |-> "file", code |-> FALSE]
FileC == [path |-> "d/c.py", type |-> "file", code |-> TRUE]
DirD == [path |-> "d", type |-> "dir", code |-> FALSE]

\* The listing of the directory d.
SubdirListing == <<FileC>>

\* The lists a remote can answer with, up to MaxTree entries without repetition.
Listings(entries) ==
  {l \in UNION {[1..n -> entries] : n \in 0..MaxTree} :
     \A j, k \in 1..Len(l) : j # k => l[j] # l[k]}

\* What one content fetch hands to the loop after
\* asyncio.gather(*file_tasks, return_exceptions=True): a dict whose 'content'
\* decodes, a dict whose 'content' does not decode, a dict without 'content',
\* or the exception get raised.
FileFetchOutcomes == {"blob", "undecodable", "no_content_key", "exception"}

\* `isinstance(content, dict) and 'content' in content`
HasContentKey(o) == o \in {"blob", "undecodable"}

\* base64.b64decode(content['content']).decode('utf-8') under try/except
Decoded(o) == IF o = "blob" THEN "text" ELSE "None"

\* The refs of the remote: the base and the head of the pull request, and
\* the ref of branch mode (`branch`, or the default branch).
Refs == {"base", "head", "ref"}

\* What a README can hold.
Readmes == {"# Old", "# New"}

\* Faulty variant of ReadmeRef: the README is read where the files are.
ReadmeRefHead(mode) == IF mode = "pr" THEN "head" ELSE "ref"

\* params={"ref": pr['base']['ref']} (line 271) / params={"ref": ref} (line 331)
ReadmeRef(mode) == IF mode = "pr" THEN "base" ELSE "ref"

\* params={"ref": pr['head']['ref']} (line 222) / params={"ref": ref} (line 292)
FileRef(mode) == IF mode = "pr" THEN "head" ELSE "ref"

\* Lines 226-236: pull-request mode appends one GitHubFile per changed file.
PrFiles(taskFiles, tasks) ==
  [k \in 1..Len(taskFiles) |->
     [filename |-> taskFiles[k].path,
      content |-> IF HasContentKey(tasks[k]) THEN Decoded(tasks[k]) ELSE "None"]]

\* Lines 295-303: branch mode appends a GitHubFile inside the
\* `if isinstance(content, dict) and 'content' in content:` block only.
BranchFiles(taskFiles, tasks) ==
  LET kept == SelectSeq([k \in 1..Len(taskFiles) |-> k], LAMBDA k : HasContentKey(tasks[k]))
  IN [j \in 1..Len(kept) |->
        [filename |-> taskFiles[kept[j]].path, content |-> Decoded(tasks[kept[j]])]]

\* The sequential client.get calls that carry no file data, in program order.
StepAfter(mode, at) ==
  IF mode = "pr"
  THEN CASE at = "pr_info" -> "pr_files"
         [] at = "build" -> "issue_comments"
         [] at = "issue_comments" -> "review_comments"
         [] at = "review_comments" -> "commits"
         [] at = "commits" -> "readme"
         [] OTHER -> "returned"
  ELSE CASE at = "resolve" -> "contents"
         [] at = "build" -> "commits"
         [] at = "commits" -> "issues"
         [] at = "issues" -> "issue_comments"
         [] at = "issue_comments" -> "readme"
         [] OTHER -> "returned"

PlainSteps == {"pr_info", "resolve", "issue_comments", "review_comments", "commits", "issues"}

\* Lines 204-205 / 276-277: the first call of the mode.
FetchStart ==
  /\ fPc = "start"
  /\ fPc' = IF fMode = "pr" THEN "pr_info"
            ELSE IF fBranchGiven THEN "contents" ELSE "resolve"
  /\ UNCHANGED <<fMode, fBranchGiven, fRoot, fStack, fTaskFiles, fTasks, fFiles, fReadme,
                 fRemoteReadme, fFileRef, ovars, gvars, xvars>>

\* One `await client.get(...)` outside any try/except: its result is used, or
\* its RuntimeError leaves the function through `finally: await client.close()`.
FetchGet(ok) ==
  /\ fPc \in PlainSteps
  /\ fPc' = IF ok THEN StepAfter(fMode, fPc) ELSE "raised"
  /\ UNCHANGED <<fMode, fBranchGiven, fRoot, fStack, fTaskFiles, fTasks, fFiles, fReadme,
                 fRemoteReadme, fFileRef, ovars, gvars, xvars>>

\* Lines 221-223: the changed files are listed and one content fetch per
\* file is created and gathered.
FetchPrFiles(ok) ==
  /\ fPc = "pr_files"
  /\ IF ok
     THEN /\ fTaskFiles' = fRoot
          /\ fTasks' = [k \in 1..Len(fRoot) |-> "pending"]
          /\ fFileRef' = IF fRoot = <<>> THEN fFileRef ELSE FileRef(fMode)
          /\ fPc' = "gather"
     ELSE /\ fPc' = "raised"
          /\ UNCHANGED <<fTaskFiles, fTasks, fFileRef>>
  /\ UNCHANGED <<fMode, fBranchGiven, fRoot, fStack, fFiles, fReadme, fRemoteReadme,
                 ovars, gvars, xvars>>

\* Lines 279-280: the root directory is listed; `stack = contents[:]`.
FetchContents(ok) ==
  /\ fPc = "contents"
  /\ IF ok
     THEN /\ fStack' = fRoot
          /\ fPc' = "walk"
     ELSE /\ fPc' = "raised"
          /\ UNCHANGED fStack
  /\ UNCHANGED <<fMode, fBranchGiven, fRoot, fTaskFiles, fTasks, fFiles, fReadme,
                 fRemoteReadme, fFileRef, ovars, gvars, xvars>>

\* Lines 282-293: one iteration of `while stack:` (stack.pop() takes the last
\* entry), or the gather once the stack is empty.
FetchWalk(ok) ==
  /\ fPc = "walk"
  /\ IF fStack = <<>>
     THEN /\ ok
          /\ fTasks' = [k \in 1..Len(fTaskFiles) |-> "pending"]
          /\ fPc' = "gather"
          /\ UNCHANGED <<fStack, fTaskFiles, fFileRef>>
     ELSE LET top == fStack[Len(fStack)]
              rest == SubSeq(fStack, 1, Len(fStack) - 1)
          IN IF top.type = "dir"
             THEN IF ok
                  THEN /\ fStack' = rest \o SubdirListing
                       /\ UNCHANGED <<fPc, fTaskFiles, fTasks, fFileRef>>
                  ELSE /\ fPc' = "raised"
                       /\ fStack' = rest
                       /\ UNCHANGED <<fTaskFiles, fTasks, fFileRef>>
             ELSE /\ ok
                  /\ fStack' = rest
                  /\ fTaskFiles' = IF top.code THEN Append(fTaskFiles, top) ELSE fTaskFiles
                  /\ fFileRef' = IF top.code THEN FileRef(fMode) ELSE fFileRef
                  /\ UNCHANGED <<fPc, fTasks>>
  /\ UNCHANGED <<fMode, fBranchGiven, fRoot, fFiles, fReadme, fRemoteReadme, ovars, gvars, xvars>>

\* One content fetch of the gather completes.
FetchFileReturns(k, o) ==
  /\ fPc = "gather"
  /\ k \in 1..Len(fTasks)
  /\ fTasks[k] = "pending"
  /\ fTasks' = [fTasks EXCEPT ![k] = o]
  /\ UNCHANGED <<fPc, fMode, fBranchGiven, fRoot, fStack, fTaskFiles, fFiles, fReadme,
                 fRemoteReadme, fFileRef, ovars, gvars, xvars>>

\* The loop over the gathered results (lines 224-236 / 294-303).
FetchBuild ==
  /\ fPc = "gather"
  /\ \A k \in 1..Len(fTasks) : fTasks[k] # "pending"
  /\ fFiles' = IF fMode = "pr" THEN PrFiles(fTaskFiles, fTasks)
               ELSE BranchFiles(fTaskFiles, fTasks)
  /\ fPc' = StepAfter(fMode, "build")
  /\ UNCHANGED <<fMode, fBranchGiven, fRoot, fStack, fTaskFiles, fTasks, fReadme,
                 fRemoteReadme, fFileRef, ovars, gvars, xvars>>

\* Lines 268-273 / 329-334: the README, read at the base ref of the pull
\* request or at the ref of the branch; any failure leaves readme = "".
FetchReadme(ok) ==
  /\ fPc = "readme"
  /\ fReadme' = IF ok THEN fRemoteReadme[ReadmeRef(fMode)] ELSE ""
  /\ fPc' = "returned"
  /\ UNCHANGED <<fMode, fBranchGiven, fRoot, fStack, fTaskFiles, fTasks, fFiles,
                 fRemoteReadme, fFileRef, ovars, gvars, xvars>>

InitFetch ==
  /\ OrchIdle
  /\ GetIdle
  /\ fPc = "start"
  /\ fMode \in {"pr", "branch"}
  /\ fBranchGiven \in BOOLEAN
  /\ (fMode = "pr") => fBranchGiven
  /\ fRoot \in (IF fMode = "pr" THEN Listings({FileA, FileB, FileT})
                ELSE Listings({FileA, FileB, FileT, DirD}))
  /\ fStack = <<>> /\ fTaskFiles = <<>> /\ fTasks = <<>> /\ fFiles = <<>> /\ fReadme = ""
  /\ fRemoteReadme \in [Refs -> Readmes]
  /\ fFileRef = "none"
  /\ XIdle

NextFetch ==
  \/ FetchStart
  \/ \E ok \in BOOLEAN : FetchGet(ok)
  \/ \E ok \in BOOLEAN : FetchPrFiles(ok)
  \/ \E ok \in BOOLEAN : FetchContents(ok)
  \/ \E ok \in BOOLEAN : FetchWalk(ok)
  \/ \E k \in 1..MaxTree + 1, o \in FileFetchOutcomes : FetchFileReturns(k, o)
  \/ FetchBuild
  \/ \E ok \in BOOLEAN : FetchReadme(ok)

SpecFetch == InitFetch /\ [][NextFetch]_vars

\* ------------------------------------------------------------------- Init
\* The state at the call of orchestrator o over one of the file lists
\* `inputs` with max_workers = workers.
OrchInitFrom(o, inputs, workers) ==
  /\ orch = o
  /\ files \in inputs
  /\ partial_report_path \in BOOLEAN
  /\ retry_callback \in BOOLEAN
  /\ (o = "parallel") => (~partial_report_path /\ ~retry_callback)
  /\ pc = "start"
  /\ run = 1
  /\ stack = <<>>
  /\ todo = <<>>
  /\ file_objs = <<>>
  /\ batch_start = 0
  /\ batch_results = <<>>
  /\ results = <<>>
  /\ analyses = <<>>
  /\ failed_files = <<>>
  /\ stream = <<>>
  /\ calls = 0
  /\ attempts = [i \in 1..Len(files) |-> 0]
  /\ cache = [h \in ContentIds |-> NoEntry]
  /\ fut = [i \in 1..Len(files) |-> [state |-> "none", result |-> <<>>]]
  /\ returned = <<>>
  /\ cancelled = FALSE
  /\ lastReply = [i \in 1..Len(files) |-> "none"]
  /\ clean = TRUE
  /\ max_workers = workers
  /\ lookup = [i \in 1..Len(files) |-> "none"]
  /\ lastPut = [i \in 1..Len(files) |-> "none"]

OrchInit(o) ==
  OrchInitFrom(o, UNION {[1..n -> Contents] : n \in 0..MaxFiles}, MAX_WORKERS)

Init ==
  /\ \E o \in {"parallel", "async"} : OrchInit(o)
  /\ GetIdle
  /\ FetchIdle
  /\ XIdle

Next ==
  \/ AsyncStart
  \/ \E k \in 1..MaxFiles, o \in AsyncOutcomes : k <= Len(file_objs) /\ CallReturns(k, o)
  \/ GatherBatch
  \/ \E answer \in BOOLEAN : RetryDecision(answer)
  \/ AsyncReturn
  \/ AsyncCancel
  \/ Partition
  \/ \E i \in 1..MaxFiles : i <= Len(files) /\ WorkerStart(i)
  \/ \E i \in 1..MaxFiles, outcome \in SyncOutcomes : i <= Len(files) /\ Worker(i, outcome)
  \/ \E i \in 1..MaxFiles, w \in WriteOutcomes : i <= Len(files) /\ Collect(i, w)
  \/ ParallelReturn
  \/ ParallelCancel
  \/ \E o \in {"parallel", "async"}, sink \in BOOLEAN, cb \in BOOLEAN : NextRun(o, sink, cb)

Spec == Init /\ [][Next]_vars

\* ------------------------------------------------- more files than one batch
\* async_analyze_code_files over more analysable files than one batch holds,
\* and analyze_files_parallel over more files than the pool has threads
\* (max_workers=2 as in tests/test_suite_utils.py:133). The replies are a
\* good one or an exception, the cache writes go through.
ManyFiles(n) == [k \in 1..n |-> IF k % 2 = 1 THEN ContentF ELSE ContentG]

InitBatch ==
  /\ \/ OrchInitFrom("async", {ManyFiles(BATCH_SIZE + MaxExtra)}, MAX_WORKERS)
     \/ /\ OrchInitFrom("parallel", {ManyFiles(TEST_WORKERS + MaxExtra)}, TEST_WORKERS)
        /\ retry_callback = FALSE
  /\ partial_report_path = FALSE
  /\ GetIdle
  /\ FetchIdle
  /\ XIdle

NextBatch ==
  \/ AsyncStart
  \/ \E k \in 1..(BATCH_SIZE + MaxExtra), o \in {"ok", "raise"} :
       k <= Len(file_objs) /\ CallReturns(k, o)
  \/ GatherBatch
  \/ \E answer \in BOOLEAN : RetryDecision(answer)
  \/ AsyncReturn
  \/ Partition
  \/ \E i \in 1..(TEST_WORKERS + MaxExtra) : i <= Len(files) /\ WorkerStart(i)
  \/ \E i \in 1..(TEST_WORKERS + MaxExtra), outcome \in {"ok", "raise"} :
       i <= Len(files) /\ Worker(i, outcome)
  \/ \E i \in 1..(TEST_WORKERS + MaxExtra) : i <= Len(files) /\ Collect(i, "written")
  \/ ParallelReturn

SpecBatch == InitBatch /\ [][NextBatch]_vars

\* --------------------------------------------------- a later snapshot
\* analyze_files_parallel is run again in the same scope (repo_name,
\* branch_name, pr_number unchanged, so the same cache directory) after the
\* repository has moved on: the file names of the snapshot now carry other
\* contents. Only .cache/ persists between the two calls.
SnapshotContents == {ContentF, ContentG, EmptyContent}

Snapshots(n) == [1..n -> SnapshotContents]

NextSnapshot(fs) ==
  /\ orch = "parallel" /\ pc = "returned" /\ run < MaxRuns
  /\ fs \in Snapshots(Len(files))
  /\ files' = fs
  /\ run' = run + 1
  /\ pc' = "start"
  /\ results' = <<>>
  /\ todo' = <<>>
  /\ returned' = <<>>
  /\ calls' = 0
  /\ attempts' = [i \in DOMAIN attempts |-> 0]
  /\ fut' = [i \in DOMAIN fut |-> [state |-> "none", result |-> <<>>]]
  /\ lastReply' = [i \in DOMAIN lastReply |-> "none"]
  /\ lookup' = [i \in DOMAIN lookup |-> "none"]
  /\ lastPut' = [i \in DOMAIN lastPut |-> "none"]
  /\ UNCHANGED <<orch, partial_report_path, stack, retry_callback, file_objs,
                 batch_start, batch_results, analyses, failed_files, stream,
                 cache, cancelled, clean, max_workers, gvars, fvars, xvars>>

InitSnap ==
  /\ OrchInitFrom("parallel", UNION {Snapshots(n) : n \in 1..MaxFiles}, MAX_WORKERS)
  /\ GetIdle
  /\ FetchIdle
  /\ XIdle

NextSnap ==
  \/ Partition
  \/ \E i \in 1..MaxFiles : i <= Len(files) /\ WorkerStart(i)
  \/ \E i \in 1..MaxFiles, outcome \in {"ok", "raise"} : i <= Len(files) /\ Worker(i, outcome)
  \/ \E i \in 1..MaxFiles, w \in WriteOutcomes : i <= Len(files) /\ Collect(i, w)
  \/ ParallelReturn
  \/ \E fs \in Snapshots(Len(files)) : NextSnapshot(fs)

SpecSnap == InitSnap /\ [][NextSnap]_vars

\* ------------------------------------------- analyze_code_files on its own
\* analyze_code_files(files, ...) of src/github_audit.py called directly: one
\* iteration of `for file in files:` per step, then `return analyses`.
SyncStep(outcome) ==
  /\ orch = "sync" /\ pc = "start"
  /\ batch_start < Len(files)
  /\ LET i == batch_start + 1 IN
     /\ CallsModel(i) \/ outcome = "ok"
     /\ analyses' = analyses \o analyze_code_files(i, outcome)
     /\ batch_start' = i
     /\ IF CallsModel(i)
        THEN /\ calls' = calls + 1
             /\ attempts' = [attempts EXCEPT ![i] = @ + 1]
             /\ lastReply' = [lastReply EXCEPT ![i] = SyncResponse(outcome)]
             /\ sError' = [sError EXCEPT ![i] =
                   IF outcome = "raise" THEN "plain"
                   ELSE IF outcome = "raise_header" THEN "with header"
                   ELSE "none"]
        ELSE UNCHANGED <<calls, attempts, lastReply, sError>>
  /\ UNCHANGED <<orch, files, partial_report_path, pc, run, stack, retry_callback, todo,
                 file_objs, batch_results, results, failed_files, stream, cache, fut,
                 returned, cancelled, clean, max_workers, lookup, lastPut,
                 gvars, fvars, rvars, bvars, lvars, yvars>>

\* Line 415: `return analyses`
SyncReturn ==
  /\ orch = "sync" /\ pc = "start"
  /\ batch_start = Len(files)
  /\ returned' = analyses
  /\ pc' = "returned"
  /\ UNCHANGED <<orch, files, partial_report_path, run, stack, retry_callback, todo,
                 file_objs, batch_start, batch_results, results, analyses, failed_files,
                 stream, calls, attempts, cache, fut, cancelled, lastReply, clean,
                 max_workers, lookup, lastPut, gvars, fvars, xvars>>

InitSync ==
  /\ OrchInitFrom("sync", UNION {[1..n -> Contents] : n \in 0..MaxFiles}, MAX_WORKERS)
  /\ partial_report_path = FALSE
  /\ retry_callback = FALSE
  /\ GetIdle
  /\ FetchIdle
  /\ ReportIdle
  /\ sError = [i \in 1..Len(files) |-> "none"]
  /\ BatchIdle
  /\ LimiterIdle
  /\ YIdle

NextSync ==
  \/ \E outcome \in SyncOutcomesByText : SyncStep(outcome)
  \/ SyncReturn

SpecSync == InitSync /\ [][NextSync]_vars

\* ===================================================== batch_async_generate
\* One call llama.batch_async_generate(batch_prompts) and the loop of
\* async_analyze_code_files over zip(batch_files, batch_results)
\* (github_audit.py:472-485). The calls of a batch end in any order.
Clients == {"ollama_code_llama", "llm.ollama_client"}

FileNames == 1..MaxFiles

\* The prompt built for a file (github_audit.py:441-465): it names the file.
PromptFor(f) == <<"File:", f>>

\* The batches: up to MaxFiles files with distinct names.
Batches ==
  {b \in UNION {[1..n -> FileNames] : n \in 0..MaxFiles} :
     \A j, k \in 1..Len(b) : j # k => b[j] # b[k]}

\* What the call for one prompt contributes to the returned list.
\* ollama_code_llama.py:136-156: an exception of the POST becomes "".
\* llm/ollama_client.py:158: async_generate has turned it into "[LLM error: ...]".
ClientResponse(client, outcome) ==
  IF client = "llm.ollama_client" /\ outcome = "raise" THEN "err"
  ELSE BatchResponse(outcome)

\* A task that has not ended.
PendingTask == [prompt |-> <<"File:", 0>>, text |-> "pending"]

\* Faulty variant of Gathered: the answers are listed as they came in.
GatheredAsCompleted(tasks, order) == [j \in 1..Len(order) |-> tasks[order[j]]]

\* `await asyncio.gather(*tasks, ...)`: the list of the tasks' values in the
\* order of the tasks, whatever the order they completed in.
Gathered(tasks, order) == [k \in 1..Len(tasks) |-> tasks[k]]

\* Lines 126-135 / 158: one task per prompt.
BatchCall ==
  /\ bPc = "call"
  /\ bTasks' = [k \in 1..Len(bPrompts) |-> PendingTask]
  /\ bPc' = "gather"
  /\ UNCHANGED <<bClient, bFiles, bPrompts, bOrder, bResults, bBuilt,
                 ovars, gvars, fvars, rvars, svars, lvars, yvars>>

\* The call for prompt k ends: its value is the answer to that prompt.
BatchTaskEnds(k, outcome) ==
  /\ bPc = "gather"
  /\ k \in 1..Len(bTasks)
  /\ bTasks[k] = PendingTask
  /\ bTasks' = [bTasks EXCEPT ![k] =
        [prompt |-> bPrompts[k], text |-> ClientResponse(bClient, outcome)]]
  /\ bOrder' = Append(bOrder, k)
  /\ UNCHANGED <<bPc, bClient, bFiles, bPrompts, bResults, bBuilt,
                 ovars, gvars, fvars, rvars, svars, lvars, yvars>>

\* The gather is over and the list is returned (lines 136-158).
BatchReturn ==
  /\ bPc = "gather"
  /\ \A k \in 1..Len(bTasks) : bTasks[k] # PendingTask
  /\ bResults' = Gathered(bTasks, bOrder)
  /\ bPc' = "zip"
  /\ UNCHANGED <<bClient, bFiles, bPrompts, bTasks, bOrder, bBuilt,
                 ovars, gvars, fvars, rvars, svars, lvars, yvars>>

\* github_audit.py:476-485: `for j, (file, llm_response) in zip(batch_files,
\* batch_results)`: a result with the file's name for every accepted response.
BatchZip ==
  /\ bPc = "zip"
  /\ LET n == Min(Len(bFiles), Len(bResults))
         good == SelectSeq([k \in 1..n |-> k],
                           LAMBDA k : ~IsFailedResponse(bResults[k].text))
     IN bBuilt' = [j \in 1..Len(good) |->
                     [filename |-> bFiles[good[j]],
                      kind |-> parse_llm_response(bResults[good[j]].text),
                      answers |-> bResults[good[j]].prompt]]
  /\ bPc' = "built"
  /\ UNCHANGED <<bClient, bFiles, bPrompts, bTasks, bOrder, bResults,
                 ovars, gvars, fvars, rvars, svars, lvars, yvars>>

InitGen ==
  /\ OrchIdle
  /\ GetIdle
  /\ FetchIdle
  /\ ReportIdle
  /\ SyncIdle
  /\ LimiterIdle
  /\ YIdle
  /\ bPc = "call"
  /\ bClient \in Clients
  /\ bFiles \in Batches
  /\ bPrompts = [k \in 1..Len(bFiles) |-> PromptFor(bFiles[k])]
  /\ bTasks = <<>> /\ bOrder = <<>> /\ bResults = <<>> /\ bBuilt = <<>>

NextGen ==
  \/ BatchCall
  \/ \E k \in 1..MaxFiles, outcome \in AsyncOutcomes : BatchTaskEnds(k, outcome)
  \/ BatchReturn
  \/ BatchZip

SpecGen == InitGen /\ [][NextGen]_vars

\* ==================================================== generate_github_report
\* (src/cli.py:518-956) One audit run of the CLI from the fetch of the
\* snapshot to the move of the partial report onto the report path. The
\* analysis of the files is the run of async_analyze_code_files above.
Scopes == {"All code files", "Only changed files (for PR)", "README only",
           "Test strategy only"}

\* What run_async(new_async_fetch_repo_data(...)) (line 627) hands back: the
\* snapshot, or '__ASYNC_ERROR__' when the coroutine raised RuntimeError (get
\* after its last attempt, cli.py:488-516).
FetchResults == {"snapshot", "__ASYNC_ERROR__"}

\* Line 686 calls async_analyze_code_files(..., rebuild_cache=rebuild_cache);
\* the function (github_audit.py:418) has no such parameter, so the call
\* raises TypeError before a coroutine exists. Line 725 passes no such keyword.
AnalysisCallAccepted(scope) == scope # "All code files"

\* Lines 627-633: `files = repo_data['files']` on the string '__ASYNC_ERROR__'
\* raises TypeError, which `except Exception` (line 947) turns into a return.
ReportFetch(o) ==
  /\ rPc = "fetch"
  /\ rPc' = IF o = "snapshot" THEN "header" ELSE "ended"
  /\ UNCHANGED <<rScope, rHasPr, rPartial, rFinal, ovars, gvars, fvars, svars, bvars, lvars, yvars>>

\* Lines 646-666: open(partial_report_path, 'w') and the header.
ReportHeader ==
  /\ rPc = "header"
  /\ rPartial' = TRUE
  /\ rPc' = "sections"
  /\ UNCHANGED <<rScope, rHasPr, rFinal, ovars, gvars, fvars, svars, bvars, lvars, yvars>>

\* Lines 677-761: the branch of the scope up to its first call.
ReportSections ==
  /\ rPc = "sections"
  /\ rPc' = IF rScope = "All code files"
            THEN (IF AnalysisCallAccepted(rScope) THEN "analysis" ELSE "ended")
            ELSE IF rScope = "Only changed files (for PR)"
            THEN (IF rHasPr THEN "analysis" ELSE "ended")
            ELSE "llm_sections"
  /\ UNCHANGED <<rScope, rHasPr, rPartial, rFinal, ovars, gvars, fvars, svars, bvars, lvars, yvars>>

\* Lines 725-731: the analysis has returned its list.
ReportAnalysed ==
  /\ rPc = "analysis" /\ pc = "returned"
  /\ rPc' = "llm_sections"
  /\ UNCHANGED <<rScope, rHasPr, rPartial, rFinal, ovars, gvars, fvars, svars, bvars, lvars, yvars>>

\* An interrupt inside the analysis leaves run_async and generate_github_report
\* (neither `except Exception` at lines 947 and 954 catches KeyboardInterrupt).
ReportAnalysisInterrupted ==
  /\ rPc = "analysis" /\ pc = "raised" /\ cancelled
  /\ rPc' = "interrupted"
  /\ UNCHANGED <<rScope, rHasPr, rPartial, rFinal, ovars, gvars, fvars, svars, bvars, lvars, yvars>>

\* Lines 697-716 / 735-761: test strategy and README review; both helpers
\* catch the failures of the model and return text.
ReportLlmSections ==
  /\ rPc = "llm_sections"
  /\ rPc' = "append"
  /\ UNCHANGED <<rScope, rHasPr, rPartial, rFinal, ovars, gvars, fvars, svars, bvars, lvars, yvars>>

\* Lines 764-771: the remaining sections are appended to the partial report.
ReportAppend ==
  /\ rPc = "append"
  /\ rPc' = "move"
  /\ UNCHANGED <<rScope, rHasPr, rPartial, rFinal, ovars, gvars, fvars, svars, bvars, lvars, yvars>>

\* Line 776: shutil.move(partial_report_path, report_path)
ReportMove ==
  /\ rPc = "move"
  /\ rPartial' = FALSE
  /\ rFinal' = TRUE
  /\ rPc' = "done"
  /\ UNCHANGED <<rScope, rHasPr, ovars, gvars, fvars, svars, bvars, lvars, yvars>>

\* An interrupt of the run outside the analysis, before the move.
ReportInterrupt ==
  /\ rPc \in {"fetch", "header", "sections", "llm_sections", "append", "move"}
  /\ rPc' = "interrupted"
  /\ UNCHANGED <<rScope, rHasPr, rPartial, rFinal, ovars, gvars, fvars, svars, bvars, lvars, yvars>>

\* The analysis runs while generate_github_report waits in run_async.
InAnalysis == rPc = "analysis"

InitReport ==
  /\ OrchInitFrom("async", UNION {[1..n -> Contents] : n \in 0..MaxFiles}, MAX_WORKERS)
  /\ partial_report_path = TRUE
  /\ retry_callback = TRUE
  /\ GetIdle
  /\ FetchIdle
  /\ rPc = "fetch"
  /\ rScope \in Scopes
  /\ rHasPr \in BOOLEAN
  /\ rPartial = FALSE
  /\ rFinal = FALSE
  /\ SyncIdle
  /\ BatchIdle
  /\ LimiterIdle
  /\ YIdle

NextReport ==
  \/ \E o \in FetchResults : ReportFetch(o)
  \/ ReportHeader
  \/ ReportSections
  \/ InAnalysis /\ AsyncStart
  \/ \E k \in 1..MaxFiles, o \in AsyncOutcomes :
       InAnalysis /\ k <= Len(file_objs) /\ CallReturns(k, o)
  \/ InAnalysis /\ GatherBatch
  \/ \E answer \in BOOLEAN : InAnalysis /\ RetryDecision(answer)
  \/ InAnalysis /\ AsyncReturn
  \/ InAnalysis /\ AsyncCancel
  \/ ReportAnalysed
  \/ ReportAnalysisInterrupted
  \/ ReportLlmSections
  \/ ReportAppend
  \/ ReportMove
  \/ ReportInterrupt

SpecReport == InitReport /\ [][NextReport]_vars

\* ============================================================ rate limiters
\* RateLimiter.is_allowed (src/fastapi_app.py:136-153) and
\* AdvancedRateLimiter.is_allowed (src/security_middleware.py:29-68). Both
\* run under self.lock, so a call is one step. The clock moves between calls.
MaxCalls == 2 * LimitPerWindow + 2
MaxTime == BlockTicks + 1

\* `[req_time for req_time in ... if now - req_time < timedelta(minutes=1)]`
CleanOld(reqs, now) == SelectSeq(reqs, LAMBDA t : now - t < WindowTicks)

\* `while requests and requests[0] < window_start: requests.popleft()`
PopOld(reqs, now) == SelectSeq(reqs, LAMBDA t : t >= now - WindowTicks)

\* The verdict of RateLimiter.is_allowed and the list it leaves.
SimpleAllowed(reqs, now, testMode) ==
  testMode \/ Len(CleanOld(reqs, now)) < LimitPerWindow

SimpleRequests(reqs, now, testMode) ==
  IF testMode THEN reqs
  ELSE IF Len(CleanOld(reqs, now)) >= LimitPerWindow THEN CleanOld(reqs, now)
  ELSE Append(CleanOld(reqs, now), now)

\* Lines 35-44: the IP is in blocked_ips and its block has not run out (an
\* IP without an entry in blocked_until stays blocked).
StillBlocked(ip, now) ==
  ip \in lBlocked /\ (lBlockedUntil[ip] = -1 \/ now < lBlockedUntil[ip])

\* The calls of the IP inside the window that ends now.
IssuedInWindow(ip, now) == SelectSeq(lIssued[ip], LAMBDA t : now - t < WindowTicks)

Record(ip, verdict) ==
  /\ lCalls' = lCalls + 1
  /\ lLast' = [ip |-> ip, allowed |-> verdict,
               before |-> Len(IssuedInWindow(ip, lNow)),
               blocked |-> StillBlocked(ip, lNow)]
  /\ lIssued' = [lIssued EXCEPT ![ip] = Append(IssuedInWindow(ip, lNow), lNow)]

\* RateLimiter.is_allowed(client_ip)
SimpleIsAllowed(ip) ==
  /\ lKind = "RateLimiter" /\ lCalls < MaxCalls
  /\ lRequests' = [lRequests EXCEPT ![ip] = SimpleRequests(@, lNow, lTestMode)]
  /\ Record(ip, SimpleAllowed(lRequests[ip], lNow, lTestMode))
  /\ UNCHANGED <<lKind, lTestMode, lNow, lBlocked, lBlockedUntil,
                 ovars, gvars, fvars, rvars, svars, bvars, yvars>>

\* AdvancedRateLimiter.is_allowed(client_ip)
AdvancedIsAllowed(ip) ==
  /\ lKind = "AdvancedRateLimiter" /\ lCalls < MaxCalls
  /\ IF StillBlocked(ip, lNow)
     THEN /\ Record(ip, FALSE)
          /\ UNCHANGED <<lRequests, lBlocked, lBlockedUntil>>
     ELSE LET kept == PopOld(lRequests[ip], lNow) IN
          IF Len(kept) >= BurstSize
          THEN /\ lRequests' = [lRequests EXCEPT ![ip] = kept]
               /\ lBlocked' = lBlocked \cup {ip}
               /\ lBlockedUntil' = [lBlockedUntil EXCEPT ![ip] = lNow + BlockTicks]
               /\ Record(ip, FALSE)
          ELSE IF Len(kept) >= LimitPerWindow
          THEN /\ lRequests' = [lRequests EXCEPT ![ip] = kept]
               /\ lBlocked' = lBlocked \ {ip}
               /\ lBlockedUntil' = [lBlockedUntil EXCEPT ![ip] = -1]
               /\ Record(ip, FALSE)
          ELSE /\ lRequests' = [lRequests EXCEPT ![ip] = Append(kept, lNow)]
               /\ lBlocked' = lBlocked \ {ip}
               /\ lBlockedUntil' = [lBlockedUntil EXCEPT ![ip] = -1]
               /\ Record(ip, TRUE)
  /\ UNCHANGED <<lKind, lTestMode, lNow, ovars, gvars, fvars, rvars, svars, bvars, yvars>>

\* Time passes between two calls.
Tick ==
  /\ lKind # "none" /\ lNow < MaxTime
  /\ lNow' = lNow + 1
  /\ UNCHANGED <<lKind, lTestMode, lRequests, lBlocked, lBlockedUntil, lCalls, lIssued,
                 lLast, ovars, gvars, fvars, rvars, svars, bvars, yvars>>

InitLimit ==
  /\ OrchIdle
  /\ GetIdle
  /\ FetchIdle
  /\ ReportIdle
  /\ SyncIdle
  /\ BatchIdle
  /\ YIdle
  /\ lKind \in {"RateLimiter", "AdvancedRateLimiter"}
  /\ lTestMode \in BOOLEAN
  /\ (lKind = "AdvancedRateLimiter") => ~lTestMode
  /\ lNow = 0
  /\ lRequests = [ip \in IPs |-> <<>>] /\ lBlocked = {}
  /\ lBlockedUntil = [ip \in IPs |-> -1] /\ lCalls = 0
  /\ lIssued = [ip \in IPs |-> <<>>] /\ lLast = NoCall

NextLimit ==
  \/ \E ip \in IPs : SimpleIsAllowed(ip)
  \/ \E ip \in IPs : AdvancedIsAllowed(ip)
  \/ Tick

SpecLimit == InitLimit /\ [][NextLimit]_vars

\* ===================================== the cache entry under concurrent runs
\* helpers.py:231-239 in two runs of analyze_files_parallel (threads of one
\* server process or two processes) for files of the same content in the same
\* scope: both runs missed the entry, analysed the file and now write the same
\* cache_path. Nothing locks the file and nothing writes to a temporary name.
\* A JSON text is a sequence of cells; a cell is what one write() of the
\* buffered file object carries (the whole text when it fits the buffer).
RaceRuns == {1, 2}

\* json.dumps(file_result[0]) of run w, n cells long; the last cell closes it.
JsonText(w, n) == [k \in 1..n |-> [run |-> w, k |-> k, last |-> (k = n)]]

\* The zero bytes the file system puts between the end of the file and a
\* write at a position behind it.
Hole == [run |-> 0, k |-> 0, last |-> FALSE]

\* write(2) at the file position of the writer's own open file description:
\* the cells replace what is there and extend the file, the rest stays.
WriteAt(file, off, cells) ==
  [p \in 1..Max(Len(file), off + Len(cells)) |->
     IF p > off /\ p <= off + Len(cells) THEN cells[p - off]
     ELSE IF p <= Len(file) THEN file[p]
     ELSE Hole]

\* The lookup found no usable entry (lines 208-217: the file is added to
\* uncached).
Miss == <<>>

\* json.load accepts a text that is one JSON document: every cell is at the
\* position it was dumped for and the closing cell is the last one. An empty
\* file, a text that stops early, a hole, or text behind the closing cell
\* raise JSONDecodeError.
Decodes(text) ==
  /\ Len(text) > 0
  /\ \A p \in 1..Len(text) : text[p].k = p /\ text[p].last = (p = Len(text))

\* Lines 208-215: os.path.exists, open, json.load under `except Exception`.
CacheGet == IF cExists /\ Decodes(cFile) THEN cFile ELSE Miss

\* Line 236: open(cache_path, 'w') creates or truncates the file.
RaceOpen(w) ==
  /\ cPc[w] = "todo"
  /\ cPc' = [cPc EXCEPT ![w] = "open"]
  /\ cOffset' = [cOffset EXCEPT ![w] = 0]
  /\ cFile' = <<>>
  /\ cExists' = TRUE
  /\ UNCHANGED <<cValue, cGets, kvars, ovars, gvars, fvars, rvars, svars, bvars, lvars>>

\* Line 237: json.dump writes into the buffer of the file object; the next n
\* cells go to the file when the buffer is flushed (at the latest by the end
\* of the with-block).
RaceWrite(w, n) ==
  /\ cPc[w] = "open"
  /\ n \in 1..(Len(cValue[w]) - cOffset[w])
  /\ cFile' = WriteAt(cFile, cOffset[w], SubSeq(cValue[w], cOffset[w] + 1, cOffset[w] + n))
  /\ cOffset' = [cOffset EXCEPT ![w] = cOffset[w] + n]
  /\ UNCHANGED <<cExists, cValue, cPc, cGets, kvars, ovars, gvars, fvars, rvars, svars,
                 bvars, lvars>>

\* The with-block of line 236 is left: everything was flushed.
RaceClose(w) ==
  /\ cPc[w] = "open" /\ cOffset[w] = Len(cValue[w])
  /\ cPc' = [cPc EXCEPT ![w] = "closed"]
  /\ UNCHANGED <<cFile, cExists, cValue, cOffset, cGets, kvars, ovars, gvars, fvars,
                 rvars, svars, bvars, lvars>>

\* A lookup of the entry by any run (lines 206-217).
RaceGet ==
  /\ cPc # <<>> /\ Len(cGets) < MaxGets
  /\ cGets' = Append(cGets, CacheGet)
  /\ UNCHANGED <<cFile, cExists, cValue, cPc, cOffset, kvars, ovars, gvars, fvars,
                 rvars, svars, bvars, lvars>>

InitRace ==
  /\ OrchIdle
  /\ GetIdle
  /\ FetchIdle
  /\ XIdleButRace
  /\ \E len \in [RaceRuns -> 1..MaxCells] :
        cValue = [w \in RaceRuns |-> JsonText(w, len[w])]
  /\ cPc = [w \in RaceRuns |-> "todo"]
  /\ cOffset = [w \in RaceRuns |-> 0]
  /\ cFile = <<>> /\ cExists = FALSE /\ cGets = <<>>

NextRace ==
  \/ \E w \in RaceRuns : RaceOpen(w)
  \/ \E w \in RaceRuns, n \in 1..MaxCells : RaceWrite(w, n)
  \/ \E w \in RaceRuns : RaceClose(w)
  \/ RaceGet

SpecRace == InitRace /\ [][NextRace]_vars

\* ============================================================ get_cache_path
\* helpers.py:110-128. A string is a sequence of characters.
NamesOver(chars, n) == UNION {[1..m -> chars] : m \in 1..n}

\* `branch_name=None`, the default of analyze_files_parallel (line 180).
NoBranch == <<"None">>

\* The literal 'default' of line 123.
DefaultName == <<"d", "e", "f", "a", "u", "l", "t">>

\* `pr_number=None` (line 180); like 0 it is falsy in line 124.
NoPr == 0

\* Full names of repositories of the owner a.
Repositories == {<<"a", "/">> \o n : n \in NamesOver({"b", "_"}, MaxRepoName)}

\* Branch names: git allows '/' inside a name, not at its ends.
BranchNames ==
  {b \in NamesOver({"b", "/", "_"}, MaxBranchName) : b[1] # "/" /\ b[Len(b)] # "/"}

Branches == BranchNames \cup {NoBranch, DefaultName}

PrNumbers == {NoPr, 1}

Scopes3 == [repository : Repositories, branch : Branches, pr_number : PrNumbers]

\* str.replace(old, new) for one-character strings.
replace(str, old, new) == [k \in 1..Len(str) |-> IF str[k] = old THEN new ELSE str[k]]

\* str(pull_request_number) for the numbers below ten.
DecimalDigits == <<"0", "1", "2", "3", "4", "5", "6", "7", "8", "9">>

\* Lines 122-125: the name of the cache directory of a scope.
cache_dir(repository, branch, pull_request_number) ==
  LET safe_repo == replace(repository, "/", "_")
      safe_branch == replace(IF branch = NoBranch \/ branch = <<>> THEN DefaultName ELSE branch,
                             "/", "_")
      pr_part == IF pull_request_number # NoPr
                 THEN <<"_", "p", "r", DecimalDigits[pull_request_number + 1]>>
                 ELSE <<>>
  IN <<".cache", "/">> \o safe_repo \o <<"_">> \o safe_branch \o pr_part

\* Line 128: os.path.join(cache_dir, f'{filename_hash}.json').
get_cache_path(repository, branch, pull_request_number, filename_hash) ==
  cache_dir(repository, branch, pull_request_number) \o <<"/", filename_hash, ".json">>

\* hash_content of the one file content both runs analyse.
TheHash == hash_content(ContentF)

PathOf(scope) == get_cache_path(scope.repository, scope.branch, scope.pr_number, TheHash)

\* helpers.py:231-239: the run in scope kWriter caches its result.
PathStore ==
  /\ kPc = "start"
  /\ kStored' = kStored \cup {PathOf(kWriter)}
  /\ kPc' = "stored"
  /\ UNCHANGED <<kWriter, kReader, kServed, cvars, ovars, gvars, fvars, rvars, svars,
                 bvars, lvars>>

\* helpers.py:206-213: the run in scope kReader looks the same content up and
\* is served the entry it finds.
PathLookup ==
  /\ kPc = "stored"
  /\ kServed' = (PathOf(kReader) \in kStored)
  /\ kPc' = "looked up"
  /\ UNCHANGED <<kWriter, kReader, kStored, cvars, ovars, gvars, fvars, rvars, svars,
                 bvars, lvars>>

InitPath ==
  /\ OrchIdle
  /\ GetIdle
  /\ FetchIdle
  /\ ReportIdle /\ SyncIdle /\ BatchIdle /\ LimiterIdle /\ RaceIdle
  /\ kPc = "start"
  /\ kWriter \in Scopes3
  /\ kReader \in Scopes3
  /\ kStored = {} /\ kServed = FALSE

NextPath == PathStore \/ PathLookup

SpecPath == InitPath /\ [][NextPath]_vars

\* =================================================================== claims
FileIdx == 1..Len(files)

\* The files that get an inference call when they are analysed.
Analysable == {i \in FileIdx : ~SkipEmpty(files[i]) /\ ~TooLarge(files[i])}

\* The number of results of a list that carry the filename of file i.
CountFor(list, i) == Cardinality({k \in 1..Len(list) : list[k].filename = i})

\* The summaries built from an empty reply or from a reply with the marker.
FailedSummaries == {"LLM error", "empty"}

\* The file's model call has returned a reply the orchestrator rejects.
ReplyFailed(i) == lastReply[i] \in {"empty", "err"}

\* C1: in a run of analyze_files_parallel over an empty cache, files with
\* identical content cost one inference call in total (so the number of calls
\* is the number of distinct analysable contents), and every file that is not
\* skipped has a result in the returned list.
C1_OneCallPerContent ==
  (orch = "parallel" /\ run = 1 /\ pc = "returned") =>
    /\ calls = Cardinality({hash_content(files[i]) : i \in Analysable})
    /\ Len(returned) = Cardinality({i \in FileIdx : ~SkipEmpty(files[i])})

C3_FailedIsolated ==
  /\ \A h \in ContentIds : cache[h].kind \notin FailedSummaries
  /\ \A k \in 1..Len(stream) : stream[k].kind \notin FailedSummaries
  /\ \A i \in FileIdx :
       (ReplyFailed(i) /\ (pc = "retry_check" \/ (orch = "parallel" /\ fut[i].state = "collected")))
         => i \in Range(failed_files)

C5_ReturnHasAllDone ==
  (pc = "returned") =>
    /\ \A i \in FileIdx : lastReply[i] = "ok" => CountFor(returned, i) > 0
    /\ \A i \in FileIdx :
         (orch = "parallel" /\ ~Falsy(files[i]) /\ fut[i].state = "none")
           => cache[hash_content(files[i])] \in Range(returned)

\* C6: for every file over the size threshold the returned list holds exactly
\* one placeholder result for it, and no inference call was made for it.
C6_PlaceholderForLarge ==
  (pc = "returned") =>
    \A i \in FileIdx : (~SkipEmpty(files[i]) /\ TooLarge(files[i])) =>
      /\ attempts[i] = 0
      /\ Cardinality({k \in 1..Len(returned) : returned[k] = Placeholder(i)}) = 1

\* C7: async_analyze_code_files recurses at most once and the recursive call
\* has no retry callback, so no file gets more than two inference calls and
\* the number of calls of a run is at most twice the number of files.
C7_AtMostOneRetry ==
  /\ Len(stack) <= 1
  /\ (stack # <<>>) => ~retry_callback
  /\ \A i \in FileIdx : attempts[i] <= 2
  /\ calls <= 2 * Len(files)

C7_Witness ==
  /\ orch = "async" /\ pc = "returned" /\ stack = <<>>
  /\ \E i \in FileIdx : attempts[i] = 2 /\ ReplyFailed(i)

\* C8: when an interrupt arrives while a batch is in flight, the orchestrator
\* returns the aborted sentinel, and every call of the batch that had
\* completed with a good reply has its cache entry.
C8_AbortSentinel ==
  cancelled =>
    /\ pc = "aborted"
    /\ \A k \in 1..Len(batch_results) :
         batch_results[k] = "ok" => cache[hash_content(files[file_objs[k]])] # NoEntry

\* C9: get issues at most `retries` HTTP calls; while it is still trying it
\* has calls left, and once the budget is used up without a 2xx response it
\* has raised the terminal error.
C9_BoundedAttempts ==
  /\ gCalls <= gRetries
  /\ (gState = "request") => gCalls < gRetries
  /\ (gState = "raised") => gCalls = gRetries
  /\ (gErrs = gRetries) => gState = "raised"

C9_Witness ==
  /\ gState = "raised" /\ gRetries = DEFAULT_RETRIES /\ gErrs = DEFAULT_RETRIES

\* C10: rate-limited responses do not consume the retry budget: get raises
\* the terminal error only after `retries` transport or remote errors, and
\* while it is trying the attempts used are the errors seen.
C10_RateLimitKeepsBudget ==
  /\ (gState = "raised") => gErrs = gRetries
  /\ (gState = "request") => gAttempt = gErrs

\* C11: after a rate-limited response whose reset lies d seconds ahead, get
\* sleeps at least max(d, 1) seconds before the next call, and every call of
\* one get asks for the same endpoint with the same parameters.
C11_WaitsForReset ==
  /\ \A k \in 1..Len(gWaits) :
       (Len(gRequests) > gWaits[k].call) => gWaits[k].slept >= Max(gWaits[k].reset_in, 1)
  /\ \A k \in 1..Len(gRequests) :
       gRequests[k] = [url |-> Url(gEndpoint), params |-> gParams]

\* C12: when the snapshot fetch returns, every file whose content fetch was
\* started has a FileObject in the snapshot; its content is null when the
\* fetch failed and the fetched text otherwise (branch and pull-request mode).
C12_FailedFetchIsNullContent ==
  (fPc \in {"issue_comments", "review_comments", "commits", "issues", "readme", "returned"}
     /\ fTasks # <<>>) =>
    \A k \in 1..Len(fTaskFiles) :
      \E j \in 1..Len(fFiles) :
        /\ fFiles[j].filename = fTaskFiles[k].path
        /\ fFiles[j].content = (IF fTasks[k] = "blob" THEN "text" ELSE "None")

\* A readable entry of the cache.
ValidEntry(e) == e # NoEntry /\ e # CorruptEntry

\* The positions of file_objs whose batch has been gathered and whose reply
\* was accepted: the files marked Done by the running call.
DonePositions ==
  {k \in 1..Len(file_objs) : k <= batch_start /\ results[k] # NoneResult}

\* C13: at the end of every batch, every file marked Done in it has a cache
\* entry under its content hash, has its result in the result list and, when
\* a stream sink was passed, has its entry in the stream. (For the thread
\* pool: every collected result is in the result list and, where the write
\* went through, in the cache.)
C13_DoneIsCachedListedStreamed ==
  /\ (orch = "async" /\ pc \in {"await", "retry_check"}) =>
       \A k \in DonePositions :
         /\ ValidEntry(cache[hash_content(files[file_objs[k]])])
         /\ results[k] \in Range(analyses)
         /\ partial_report_path => results[k] \in Range(stream)
  /\ (orch = "parallel" /\ pc = "collect") =>
       \A i \in FileIdx : (fut[i].state = "collected" /\ fut[i].result # <<>>) =>
         /\ fut[i].result[1] \in Range(results)
         /\ (lastPut[i] = "written") => ValidEntry(cache[hash_content(files[i])])

\* C14: over a run with its retry pass the stream holds at most one entry
\* per file, and every step of the run leaves what the stream held in place
\* and only appends to it.
C14_StreamAppendOnly ==
  /\ [](\A i \in FileIdx : CountFor(stream, i) <= 1)
  /\ [][(run' = run) =>
         /\ Len(stream') >= Len(stream)
         /\ SubSeq(stream', 1, Len(stream)) = stream]_vars

C14_Witness ==
  /\ orch = "async" /\ pc = "returned" /\ partial_report_path
  /\ Len(stream) = 2
  /\ \E i \in FileIdx : attempts[i] = 2 /\ CountFor(stream, i) = 1

\* C15: when a stream sink is passed, every file whose cache key hits has the
\* cached result in the result list and in the stream before any batch is
\* awaited, and gets no inference call. (analyze_files_parallel, which takes
\* no sink: the cached result is in the result list before the pool starts.)
C15_CacheHitStreamedFirst ==
  /\ (orch = "async" /\ partial_report_path /\ pc \in {"await", "retry_check"}) =>
       \A i \in Analysable :
         ValidEntry(cache[hash_content(files[i])]) =>
           /\ cache[hash_content(files[i])] \in Range(stream)
           /\ cache[hash_content(files[i])] \in Range(analyses)
           /\ attempts[i] = 0
  /\ (orch = "parallel" /\ pc = "collect") =>
       \A i \in FileIdx : lookup[i] = "hit" =>
         /\ cache[hash_content(files[i])] \in Range(results)
         /\ attempts[i] = 0

\* The file's content is missing, empty or only whitespace.
IsEmptyFile(i) == files[i].chars = 0 \/ files[i].blank

\* C16: a file whose content is empty, missing or only whitespace never gets
\* an inference call and never has a result in a result list, in the stream
\* or in the returned list, whatever the other files are.
C16_EmptyNeverAnalysed ==
  \A i \in FileIdx : IsEmptyFile(i) =>
    /\ attempts[i] = 0
    /\ CountFor(results, i) = 0
    /\ CountFor(analyses, i) = 0
    /\ CountFor(stream, i) = 0
    /\ CountFor(returned, i) = 0

C16_Witness ==
  /\ pc = "returned" /\ orch = "parallel"
  /\ \E i, j \in FileIdx :
       /\ files[i] = BlankContent /\ fut[i].state = "collected"
       /\ lastReply[j] = "ok" /\ CountFor(returned, j) = 1

\* The inference calls that have been issued and have not returned.
InFlight ==
  IF orch = "async"
  THEN {k \in 1..Len(batch_results) : batch_results[k] = "pending"}
  ELSE {i \in Running : ~IsEmptyFile(i) /\ ~TooLarge(files[i])}

\* C17: at every moment at most batch-size (8) inference calls are in flight
\* (for the thread pool: at most max_workers, which is at most 8), the calls
\* in flight are calls of the current batch, and async_analyze_code_files
\* issues new calls only when no call is in flight: a batch is dispatched
\* after every call of the batch before it has returned.
C17_BoundedBatches ==
  /\ [](/\ Cardinality(InFlight) <= BATCH_SIZE
        /\ (orch = "parallel") =>
             (Cardinality(InFlight) <= max_workers /\ max_workers <= MAX_WORKERS)
        /\ (orch = "async") =>
             \A k \in InFlight : batch_start < k /\ k <= batch_start + BATCH_SIZE)
  /\ [][(orch = "async" /\ calls' > calls) => InFlight = {}]_vars

C17_Witness ==
  /\ orch = "async" /\ pc = "await" /\ stack = <<>>
  /\ batch_start = BATCH_SIZE
  /\ calls = BATCH_SIZE + 1
  /\ Cardinality(InFlight) = 1

\* C18: a failed model call never aborts the batch or the run: the
\* orchestrator raises only when it was interrupted, every file of a gathered
\* batch is Done (has its result) or Failed (is in the failed-file list), and
\* at the return every analysable file has had its own reply, a good reply
\* has given exactly one result and a failed one is recorded as failed (for
\* the thread pool: has given its one error result).
C18_FailureStaysLocal ==
  /\ (pc = "raised") => cancelled
  /\ (orch = "async" /\ pc \in {"await", "retry_check", "return"}) =>
       \A k \in 1..Len(file_objs) : k <= batch_start =>
         (results[k] # NoneResult \/ file_objs[k] \in Range(failed_files))
  /\ (orch = "async" /\ pc = "returned") =>
       \A i \in FileIdx : (~IsEmptyFile(i) /\ ~TooLarge(files[i])) =>
         /\ lastReply[i] # "none"
         /\ (lastReply[i] = "ok") => CountFor(analyses, i) = 1
         /\ ReplyFailed(i) => i \in Range(failed_files)
  /\ (orch = "parallel" /\ pc = "returned") =>
       \A i \in Range(todo) : (~IsEmptyFile(i) /\ ~TooLarge(files[i])) =>
         /\ lastReply[i] # "none"
         /\ CountFor(returned, i) = 1

C18_Witness ==
  /\ orch = "async" /\ pc = "returned"
  /\ Len(files) > BATCH_SIZE
  /\ ReplyFailed(1)
  /\ lastReply[2] = "ok" /\ CountFor(analyses, 2) = 1
  /\ lastReply[BATCH_SIZE + 1] = "ok" /\ CountFor(analyses, BATCH_SIZE + 1) = 1

\* The files of the input with the content of file i.
SameContent(i) == {j \in FileIdx : hash_content(files[j]) = hash_content(files[i])}

\* C19: a cache entry that cannot be read is a miss and not an error: it
\* never enters a result list, its file is submitted and analysed like an
\* uncached file and has its result in the returned list, the entry stays as
\* it is until a write for its key, and after writes that all went through it
\* holds the result one of them wrote.
C19_CorruptIsMiss ==
  /\ CorruptEntry \notin Range(results) \cup Range(returned)
  /\ (orch = "parallel" /\ pc \in {"collect", "returned", "raised"}) =>
       \A i \in FileIdx : lookup[i] = "unreadable" =>
         /\ i \in Range(todo) /\ fut[i].state # "none"
         /\ (pc = "returned" /\ ~TooLarge(files[i]) /\ ~IsEmptyFile(i)) =>
              (attempts[i] = 1 /\ CountFor(returned, i) = 1)
         /\ (\A j \in SameContent(i) : lastPut[j] = "none") =>
              cache[hash_content(files[i])] = CorruptEntry
         /\ ((\E j \in SameContent(i) : lastPut[j] = "written")
               /\ (\A j \in SameContent(i) : lastPut[j] \in {"none", "written"})) =>
              \E j \in SameContent(i) :
                /\ lastPut[j] = "written"
                /\ cache[hash_content(files[i])] = fut[j].result[1]

C19_Witness ==
  /\ orch = "parallel" /\ pc = "returned" /\ run > 1
  /\ \E i \in FileIdx :
       /\ lookup[i] = "unreadable" /\ lastPut[i] = "written"
       /\ cache[hash_content(files[i])] = [filename |-> i, kind |-> "summary"]

\* C20: a cache write that fails is not propagated: the orchestrator still
\* raises only when interrupted, the result of the file is in the result
\* list all the same, and at the return every submitted file has been
\* collected and every one that gave a result has it in the returned list.
C20_PutIsBestEffort ==
  /\ \A i \in FileIdx : lastPut[i] = "dump_failed" =>
       /\ fut[i].result[1] \in Range(results)
       /\ pc \in {"collect", "returned"} \/ cancelled
  /\ (orch = "parallel" /\ pc = "returned") =>
       \A i \in Range(todo) :
         /\ fut[i].state = "collected"
         /\ (fut[i].result # <<>>) => CountFor(returned, i) = 1

C20_Witness ==
  /\ orch = "parallel" /\ pc = "returned" /\ Len(returned) = 2
  /\ lastPut[returned[1].filename] = "dump_failed"
  /\ lastPut[returned[2].filename] = "written"

\* The files the cache lookup of the run found an entry for, in list order:
\* their entries are the first results of the run.
HitPositions == SelectSeq([k \in 1..Len(files) |-> k], LAMBDA i : lookup[i] = "hit")

\* C21: a result served from the cache carries the filename of a file of the
\* current snapshot that has the content the entry is stored under, whatever
\* snapshots the earlier runs of the scope were over.
C21_CachedFilenameInSnapshot ==
  (orch = "parallel" /\ pc \in {"collect", "returned"}) =>
    \A k \in 1..Len(HitPositions) :
      /\ k <= Len(results)
      /\ results[k].filename \in SameContent(HitPositions[k])

\* C22: in pull-request mode the readme of the snapshot is the README the
\* remote holds at the base ref, whatever it holds at the head ref, and the
\* contents of the changed files were asked for at the head ref.
C22_ReadmeFromBase ==
  (fMode = "pr" /\ fPc = "returned") =>
    /\ fReadme # "" => fReadme = fRemoteReadme["base"]
    /\ fTaskFiles # <<>> => fFileRef = "head"

C22_Witness ==
  /\ fMode = "pr" /\ fPc = "returned"
  /\ fRemoteReadme["base"] = "# Old" /\ fRemoteReadme["head"] = "# New"
  /\ fReadme = "# Old"
  /\ fTaskFiles # <<>> /\ fFileRef = "head"

\* C23: an answer that says the repository or pull request does not exist,
\* or that the token is rejected, ends the call of get at once: get raises
\* and no further HTTP call follows the answer.
C23_GlobalFailureNotRetried ==
  \A k \in 1..Len(gAnswers) :
    gAnswers[k] = "not_found" => (k = Len(gAnswers) /\ gState = "raised")

\* C24: an audit run that was not interrupted ends with the report at the
\* report path; an interrupted run leaves no report there, and the partial
\* report it had started stays on disk.
C24_ReportUnlessCancelled ==
  /\ rPc \in {"ended", "done"} => rFinal
  /\ rPc = "interrupted" => ~rFinal

\* C25: analyze_code_files returns, for every file that is neither empty
\* nor too large and whose generate call raised, exactly one result, and the
\* summary of that result holds the text "LLM error".
C25_RaiseGivesLlmError ==
  (orch = "sync" /\ pc = "returned") =>
    \A i \in Analysable :
      sError[i] # "none" =>
        /\ CountFor(returned, i) = 1
        /\ \A k \in 1..Len(returned) :
             returned[k].filename = i => returned[k].kind = "LLM error"

\* C26: the list batch_async_generate returns is as long as its prompts and
\* its entry i answers prompt i, also when calls failed; every AnalysisResult
\* built from the batch has the name of the file its response was asked for.
C26_ResponsesAligned ==
  /\ bPc \in {"zip", "built"} =>
       /\ Len(bResults) = Len(bPrompts)
       /\ \A i \in 1..Len(bResults) : bResults[i].prompt = bPrompts[i]
  /\ bPc = "built" =>
       \A j \in 1..Len(bBuilt) : bBuilt[j].answers = PromptFor(bBuilt[j].filename)

C26_Witness ==
  /\ bPc = "built" /\ Len(bPrompts) > 1
  /\ bOrder[1] # 1
  /\ \E k \in 1..Len(bResults) : bResults[k].text # "ok"
  /\ bBuilt # <<>>

\* C27: a call of an IP that has issued more requests than the limit inside
\* the window before it is denied; the AdvancedRateLimiter denies every call
\* of an IP whose block has not run out; an IP that has made no call has no
\* recorded request and is not blocked.
C27_DeniedOverLimit ==
  /\ lLast.before > LimitPerWindow => ~lLast.allowed
  /\ lLast.blocked => ~lLast.allowed
  /\ \A ip \in IPs : lIssued[ip] = <<>> => (lRequests[ip] = <<>> /\ ip \notin lBlocked)


\* The lifecycle state of file i in a run of the async orchestrator, read off
\* the lists of the running call and of the calls waiting on the stack.
HasResult(i) ==
  \/ CountFor(analyses, i) > 0
  \/ CountFor(returned, i) > 0
  \/ \E f \in 1..Len(stack) : CountFor(stack[f].analyses, i) > 0

InFailedList(i) ==
  \/ i \in Range(failed_files)
  \/ \E f \in 1..Len(stack) : i \in Range(stack[f].failed_files)

AwaitsCall(i) == \E k \in (batch_start + 1)..Len(file_objs) : file_objs[k] = i

LifeStatus(i) ==
  IF pc = "start" THEN "Pending"
  ELSE IF SkipEmpty(files[i]) THEN "Skipped-Empty"
  ELSE IF TooLarge(files[i]) THEN "Skipped-TooLarge"
  ELSE IF HasResult(i) THEN "Done"
  ELSE IF AwaitsCall(i) THEN "Analyzing"
  ELSE IF InFailedList(i) THEN "Failed"
  ELSE "Pending"

AbsorbingStatus == {"Skipped-Empty", "Skipped-TooLarge", "Cached", "Done"}

LifeOrder ==
  {<<"Pending", "Skipped-Empty">>, <<"Pending", "Skipped-TooLarge">>,
   <<"Pending", "Analyzing">>, <<"Analyzing", "Done">>, <<"Analyzing", "Failed">>,
   <<"Failed", "Analyzing">>}

\* C28: within a run of the async orchestrator every change of a file's
\* lifecycle state follows the order Pending, then Skipped / Analyzing, then
\* Done / Failed, with Failed going back to Analyzing on a retry; a file that
\* is Skipped-Empty, Skipped-TooLarge or Done keeps that state and gets no
\* further model call; a file becomes Done or Failed only in a step in which
\* its own call of the gathered batch has returned, Done on an accepted reply
\* and Failed on a rejected one; and when the run has returned no file of the
\* failed-file list has a result in the returned list.
C28_AsyncLifecycle ==
  [][(orch = "async" /\ run' = run) =>
       /\ \A i \in FileIdx :
            /\ LifeStatus(i)' # LifeStatus(i) =>
                 <<LifeStatus(i), LifeStatus(i)'>> \in LifeOrder
            /\ LifeStatus(i) \in AbsorbingStatus =>
                 LifeStatus(i)' = LifeStatus(i) /\ attempts'[i] = attempts[i]
            /\ (LifeStatus(i) = "Analyzing" /\ LifeStatus(i)' \in {"Done", "Failed"}) =>
                 \E k \in 1..Len(file_objs) :
                    /\ file_objs[k] = i
                    /\ batch_results[k] # "pending"
                    /\ lastReply[i] = batch_results[k]
                    /\ (LifeStatus(i)' = "Failed") = ReplyFailed(i)
       /\ pc' = "returned" =>
            \A i \in FileIdx :
               ~(CountFor(returned', i) > 0 /\ i \in Range(failed_files'))
    ]_vars

\* A file served from the cache by the pool orchestrator, whose worker calls
\* the model for the other files.
IsCached(i) == orch = "parallel" /\ pc # "start" /\ lookup[i] = "hit"

\* C28 (Cached): within a run of the pool orchestrator a file that was served
\* from the cache stays so: it is never submitted to a worker and gets no
\* model call.
C28_CachedAbsorbing ==
  [][(orch = "parallel" /\ run' = run) =>
       \A i \in FileIdx :
          IsCached(i) => IsCached(i)' /\ attempts'[i] = attempts[i] /\ fut'[i] = fut[i]
    ]_vars

C29_LastWriterWins ==
  /\ (\A w \in RaceRuns : cPc # <<>> /\ cPc[w] = "closed") =>
        \E w \in RaceRuns : cFile = cValue[w]
  /\ \A g \in 1..Len(cGets) :
        cGets[g] = Miss \/ \E w \in RaceRuns : cGets[g] = cValue[w]

\* C30: a run that looks a content up in one scope (repository, branch,
\* pull-request number) is never served the entry a run of a different scope
\* cached for that content: different scopes have different cache directories.
C30_ScopesApart ==
  (kPc = "looked up" /\ kWriter # kReader) => ~kServed
====
